---- MODULE Spec2Model ----
(***************************************************************************)
(* A model of the script-module subsystem of the comics host library:      *)
(* the Module Manager (rust/src/modules/manager.rs), the script runtime    *)
(* (rust/src/js_engine/runtime.rs), the scoped-storage binding             *)
(* (rust/src/js_engine/bindings/storage.rs), the image cache               *)
(* (rust/src/api/image_cache_api.rs), the metadata scan of the module      *)
(* loader (rust/src/js_engine/module_loader.rs), the registration of the   *)
(* bindings (rust/src/js_engine/bindings/mod.rs), the worker threads of    *)
(* the network and storage bindings, the proxy manager                     *)
(* (rust/src/http/proxy.rs), the property API of the host                  *)
(* (rust/src/api/property_api.rs) and the start of the application         *)
(* (rust/src/lib.rs, rust/src/api/init.rs).                                *)
(*                                                                         *)
(* NewSpec is the construction of an engine by JsRuntime::new and LoadSpec *)
(* has loads whose engine fails.  The other specifications describe the    *)
(* manager and the scripts with engines whose construction has succeeded.  *)
(* InitSpec starts before init_application; the others start after it.     *)
(*                                                                         *)
(* Every request of the host application is run by a process p that walks  *)
(* through the await points of the handler; one action of the model is the *)
(* code between two await points.                                          *)
(***************************************************************************)
EXTENDS Integers, Sequences, FiniteSets, TLC

\* ------------------------------------------------------------------------
\* Bounds
\* ------------------------------------------------------------------------
NumProcs == 2       \* requests in flight at the same time
MaxTime == 1        \* the clock ticks at most this often
MaxEngines == 2     \* script engines created in one run
MaxRequests == 3    \* requests issued in one run
MaxScriptOps == 2   \* binding calls scripts make in one run
MaxScriptCalls == 2 \* calls of functions that make binding calls
MaxFailures == 2    \* resource-limit failures counted for one engine
MaxLive == 2        \* operations started in one run with its scheduling

Procs == 1..NumProcs

\* ------------------------------------------------------------------------
\* JavaScript values, as far as the bindings tell them apart
\* ------------------------------------------------------------------------
JsString(s) == [t |-> "string", v |-> s]
JsNull == [t |-> "null", v |-> ""]
JsUndefined == [t |-> "undefined", v |-> ""]

\* String(value)
js_String(value) ==
  CASE value.t = "string" -> value.v
    [] value.t = "null" -> "null"
    [] OTHER -> "undefined"

\* a || b : the empty string, null and undefined are falsy
js_or(a, b) == IF a.t = "string" /\ a.v # "" THEN a ELSE b

\* an empty array, an object of a given shape, an Error object
JsArray == [t |-> "array", v |-> ""]
JsObject(shape) == [t |-> "object", v |-> shape]
JsErrorObject(message, stack) == [t |-> "error", v |-> message, stack |-> stack]

\* JSON.stringify(value) converted to a Rust String: undefined does not
\* convert
JSON_stringify(value) ==
  CASE value.t = "string" -> [ok |-> TRUE, json |-> "\"" \o value.v \o "\""]
    [] value.t = "null" -> [ok |-> TRUE, json |-> "null"]
    [] value.t = "array" -> [ok |-> TRUE, json |-> "[]"]
    [] value.t = "object" -> [ok |-> TRUE, json |-> "{" \o value.v \o "}"]
    [] value.t = "error" -> [ok |-> TRUE, json |-> "{}"]
    [] OTHER -> [ok |-> FALSE, json |-> ""]

\* ------------------------------------------------------------------------
\* Script text, as far as extract_field reads it: the sequence of the
\* entries  key: "value"  of the text, in the order of the text.  The key is
\* prefix \o field (uuid is "uu" \o "id"), quoted tells whether the key is
\* written in double quotes, value is the text between the quotes of the
\* value cut into parts (a part "'" or "\"" is a quote character in the
\* value), and meta tells whether the entry is a member of the metadata
\* object of the module.
\* ------------------------------------------------------------------------
Entry(prefix, field, quoted, value, meta) ==
  [prefix |-> prefix, field |-> field, quoted |-> quoted, value |-> value,
   meta |-> meta]

\* { id: .., name: .., version: .., description: .. } of a module
Metadata(id, name, version, description) ==
  << Entry("", "id", FALSE, <<id>>, TRUE), Entry("", "name", FALSE, <<name>>, TRUE),
     Entry("", "version", FALSE, <<version>>, TRUE) >>
  \o (IF description = "" THEN <<>>
      ELSE << Entry("", "description", FALSE, <<description>>, TRUE) >>)

\* ------------------------------------------------------------------------
\* The modules directory: file stem |-> the script, with what its metadata
\* object declares, its text and the functions it defines.
\* getCategories returns a value; main makes storage binding calls.
\* ------------------------------------------------------------------------
Files ==
  [ a |-> [id |-> "a", name |-> "A", version |-> "1.0", description |-> "first",
           text |-> Metadata("a", "A", "1.0", "first"),
           functions |-> {"getCategories", "getComics", "main"}],
    b |-> [id |-> "b", name |-> "B", version |-> "2.0", description |-> "",
           text |-> Metadata("b", "B", "2.0", ""),
           functions |-> {"getCategories", "getComics", "main"}] ]

Stems == DOMAIN Files
ModuleIds == {Files[s].id : s \in Stems}

\* The whole modules directory: the scripts above, named after the id they
\* declare, and a script whose file name is not the id it declares.
modules_dir ==
  Files @@
  [ c |-> [id |-> "d", name |-> "D", version |-> "3.0", description |-> "",
           text |-> Metadata("d", "D", "3.0", ""),
           functions |-> {"getCategories", "getComics", "main"}] ]

\* function names a caller of the Module Manager asks for: a declared
\* function and a name that is no callable global
FuncNames == {"getCategories", "nosuch"}

\* the functions the storage binding installs in global scope
NativeFunctions ==
  {"__native_storage_get_sync__", "__native_storage_set_sync__",
   "__native_storage_remove_sync__"}

\* keys and values scripts store
StorageKeys == {"k"}
StorageValues == {"", "v"}

\* the image cache: resource locators, payload files, expiry in days
CacheUrls == {"u"}
CachePaths == {"f1", "f2"}
ExpireDays == {0, 1}
DefaultExpireDays == 30

NoEngine == 0
NoRow == [present |-> FALSE]

VARIABLES
  now,         \* Utc::now()
  moduleInfo,  \* table module_info: id |-> row
  properties,  \* table properties: id |-> row
  imageCache,  \* table image_cache: cache_key |-> row
  files,       \* payload files that exist in the cache directory
  instances,   \* ModuleManager.instances: module id |-> engine
  engines,     \* engines created so far: engine |-> [script, MODULE_ID, notFound]
  pc,          \* position of each request
  req,         \* the request each process runs
  tmp,         \* locals of the handler
  res,         \* result of the finished request
  issued,      \* number of requests issued
  bindingCalls,\* number of binding calls scripts have made
  serial,      \* the host application issues one request at a time
  config,      \* ProxyManager.config: <<>> (None) or <<url>>
  failures,    \* history: engine |-> calls that ended on a resource limit
  cells        \* the globals init_application has set, the steps it has done

db == <<moduleInfo, properties, imageCache, files>>
vars == <<now, moduleInfo, properties, imageCache, files, instances, engines,
          pc, req, tmp, res, issued, bindingCalls, serial, config, failures,
                 cells>>

\* loaded and disabled are history fields: whether the module had an instance,
\* and whether a disable of the module had completed, when the request arrived
\* wrapper is the typed wrapper the request came through ("" for call_function)
\* script is the text handed to extract_metadata
\* url is the Option<String> handed to ProxyManager::set_proxy
\* declarations is what the text handed to validate_script holds besides its
\* entries: the places where a name is followed by " =" or ":" or follows
\* "function "
\* args is the argument text of a call, the sequence of its tokens; the
\* typed wrappers pass "{}"
NoReq == [op |-> "none", m |-> "", f |-> "", enabled |-> FALSE, key |-> "",
          value |-> "", days |-> <<>>, loaded |-> FALSE, disabled |-> FALSE,
          wrapper |-> "", script |-> <<>>, url |-> <<>>, args |-> <<"{", "}">>,
          declarations |-> {}]

\* got is the result of the last binding call of the running script and
\* module_id the namespace it worked in; returned is what the invoked
\* function did, out the text of the result (the JSON string of Ok, the
\* parts of the message of Err); step and globals are the position of
\* register_all and the names defined in the global scope of the context
\* that JsRuntime::new is building; native is the native function the
\* script is in and worker the state of the thread it has spawned; metadata
\* is what extract_metadata returned
NoTmp == [now |-> 0, existing |-> FALSE, engine |-> NoEngine,
          got |-> JsUndefined, module_id |-> "", key |-> "", value |-> "",
          row |-> NoRow, returned |-> [kind |-> "none"], out |-> <<>>,
          step |-> 0, globals |-> {}, native |-> "", worker |-> "none",
          metadata |-> NoRow, proxy |-> <<>>, warnings |-> {}, caches |-> {},
          stats |-> [total_count |-> 0, valid_count |-> 0, expired_count |-> 0]]
NoRes == "none"

\* ------------------------------------------------------------------------
\* ModuleLoader
\* ------------------------------------------------------------------------
\* load_script: the script exists iff <modules_dir>/<module_id>.js exists
script_exists(module_id) == module_id \in DOMAIN modules_dir

\* the characters [^"']+ does not match
Quotes == {"'", "\""}

\* the text of parts
RECURSIVE Concat(_)
Concat(parts) ==
  IF parts = <<>> THEN "" ELSE Head(parts) \o Concat(Tail(parts))

\* ["']([^"']+)["'] on a value: the group takes the characters up to the
\* first quote character, and has to take one at least
capture(value) ==
  LET quotes == {i \in DOMAIN value : value[i] \in Quotes}
  IN IF quotes = {} THEN value
     ELSE SubSeq(value, 1, (CHOOSE i \in quotes : \A j \in quotes : i <= j) - 1)

\* the two patterns of extract_field:  field:\s*["']([^"']+)["']  matches an
\* unquoted key that ends with field, and  "field":\s*["']([^"']+)["']  a
\* quoted key that is field
patterns == {1, 2}
matches(entry, field, pattern) ==
  /\ entry.field = field
  /\ Concat(capture(entry.value)) # ""
  /\ IF pattern = 1 THEN ~entry.quoted
                    ELSE entry.quoted /\ entry.prefix = ""

\* re.captures(script): the first match of the pattern in the text
first_match(script, field, pattern) ==
  LET found == {i \in DOMAIN script : matches(script[i], field, pattern)}
  IN IF found = {} THEN 0 ELSE CHOOSE i \in found : \A j \in found : i <= j

\* extract_field: the patterns are tried in order over the whole text
extract_field(script, field) ==
  LET m1 == first_match(script, field, 1)
      m2 == first_match(script, field, 2)
  IN IF m1 # 0 THEN [ok |-> TRUE, value |-> Concat(capture(script[m1].value))]
     ELSE IF m2 # 0 THEN [ok |-> TRUE, value |-> Concat(capture(script[m2].value))]
     ELSE [ok |-> FALSE, value |-> ""]

\* extract_metadata: id, name and version with ?, description with
\* unwrap_or_default
extract_metadata(script) ==
  LET id == extract_field(script, "id")
      name == extract_field(script, "name")
      version == extract_field(script, "version")
      description == extract_field(script, "description")
  IN IF id.ok /\ name.ok /\ version.ok
       THEN [ok |-> TRUE, id |-> id.value, name |-> name.value,
             version |-> version.value, description |-> description.value]
       ELSE [ok |-> FALSE, id |-> "", name |-> "", version |-> "",
             description |-> ""]

required_functions ==
  {"getCategories", "getComicList", "getComicDetail", "getChapterImages"}

\* (a validation that fails when an entry point is missing)
validate_script_Strict(script, declarations) ==
  LET missing == {func \in required_functions :
                    /\ <<"function ", func>> \notin declarations
                    /\ <<func, " =">> \notin declarations
                    /\ <<func, ":">> \notin declarations}
  IN [ok |-> extract_metadata(script).ok /\ missing = {}, warnings |-> missing]
\* validate_script: a warning for every required function the text does not
\* seem to define, then the result of extract_metadata
validate_script(script, declarations) ==
  LET missing == {func \in required_functions :
                    /\ <<"function ", func>> \notin declarations
                    /\ <<func, " =">> \notin declarations
                    /\ <<func, ":">> \notin declarations}
  IN [ok |-> extract_metadata(script).ok, warnings |-> missing]

\* the declarations of a file of the modules directory
declarations_of(stem) == {<<"function ", func>> : func \in modules_dir[stem].functions}

\* ------------------------------------------------------------------------
\* tokio::sync::RwLock around the instances map.  The write guard is only
\* held inside one step (insert or remove); read guards are held across
\* the script call.  The lock is fair: while a writer waits, no new read
\* guard is handed out.
\* ------------------------------------------------------------------------
ReadHolders == {p \in Procs : pc[p] \in {"call_run", "js_set_write"}}
WriteWaiters == {p \in Procs : pc[p] \in {"load_insert", "unload_remove"}}

CanRead == WriteWaiters = {}
\* (a lock that never hands out the write guard)
CanWrite_Never == FALSE
CanWrite == ReadHolders = {}

\* ------------------------------------------------------------------------
\* The state after init_application.  The tables are persisted: module_info
\* is empty on a fresh installation, or holds what an earlier run registered.
\* ------------------------------------------------------------------------
PersistedRow(stem) ==
  [name |-> Files[stem].name, version |-> Files[stem].version,
   description |-> Files[stem].description, script_path |-> stem \o ".js",
   enabled |-> TRUE, created_at |-> 0, updated_at |-> 0]

InitTables == {<<>>, [m \in {"a"} |-> PersistedRow(m)]}

\* the globals of lib.rs, database/mod.rs and module_api.rs in the order
\* init_application sets them, with the steps that set no global
Cells ==
  <<"ROOT_PATH", "directories", "DATABASE_DIR", "MODULES_DIR", "CACHE_DIR",
    "DATABASE", "MODULE_MANAGER", "proxy">>

Dormant ==
  /\ now = 0
  /\ properties = <<>>
  /\ imageCache = <<>>
  /\ files = {}
  /\ pc = [p \in Procs |-> "idle"]
  /\ req = [p \in Procs |-> NoReq]
  /\ tmp = [p \in Procs |-> NoTmp]
  /\ res = [p \in Procs |-> NoRes]
  /\ issued = 0
  /\ bindingCalls = 0
  /\ config = <<>>
  /\ failures = [engine \in 1..MaxEngines |-> 0]

\* init_application has returned Ok
Quiet == Dormant /\ cells = {Cells[i] : i \in DOMAIN Cells}

\* ModuleManager::new: no instance
Boot ==
  /\ Quiet
  /\ instances = <<>>
  /\ engines = <<>>

Init == Boot /\ moduleInfo \in InitTables /\ serial = FALSE

\* the clock advances
Tick ==
  /\ now < MaxTime
  /\ now' = now + 1
  /\ UNCHANGED <<db, instances, engines, pc, req, tmp, res, issued, bindingCalls, serial,
                 config, failures, cells>>

\* process p moves on to position next with locals t
Goto(p, next, t) ==
  /\ pc' = [pc EXCEPT ![p] = next]
  /\ tmp' = [tmp EXCEPT ![p] = t]
  /\ UNCHANGED <<req, res, issued, serial, config, failures, cells>>

\* (failures is left to the caller)
\* process p finishes its request with result r and locals t, the requests
\* being requests; the callers have taken the results of the requests that
\* were done before
FinishWith(p, r, t, requests) ==
  /\ pc' = [q \in Procs |-> IF q = p THEN "done"
                            ELSE IF pc[q] = "done" THEN "idle" ELSE pc[q]]
  /\ req' = [q \in Procs |-> IF pc[q] = "done" THEN NoReq ELSE requests[q]]
  /\ tmp' = [q \in Procs |-> IF q = p THEN t
                             ELSE IF pc[q] = "done" THEN NoTmp ELSE tmp[q]]
  /\ res' = [q \in Procs |-> IF q = p THEN r
                             ELSE IF pc[q] = "done" THEN NoRes ELSE res[q]]
  /\ UNCHANGED <<issued, serial, config, cells>>

Finish(p, r, t) == FinishWith(p, r, t, req) /\ UNCHANGED failures

Free(p) == pc[p] \in {"idle", "done"}

\* A request arrives and takes the lowest free process (process numbers
\* carry no meaning); the callers have taken the results of the requests
\* that are done.
Arrive(p, r, first, limit) ==
  /\ Free(p)
  /\ \A q \in Procs : q < p => ~Free(q)
  /\ serial => \A q \in Procs : Free(q)
  /\ issued < limit
  /\ issued' = issued + 1
  /\ pc' = [q \in Procs |-> IF q = p THEN first ELSE IF Free(q) THEN "idle" ELSE pc[q]]
  /\ req' = [q \in Procs |-> IF q = p THEN r ELSE IF Free(q) THEN NoReq ELSE req[q]]
  /\ tmp' = [q \in Procs |-> IF q = p \/ Free(q) THEN NoTmp ELSE tmp[q]]
  /\ res' = [q \in Procs |-> IF q = p \/ Free(q) THEN NoRes ELSE res[q]]
  /\ UNCHANGED <<now, instances, engines, bindingCalls, serial, config, failures, cells>>

StartWithin(p, r, first, limit) == Arrive(p, r, first, limit) /\ UNCHANGED db

Start(p, r, first) == StartWithin(p, r, first, MaxRequests)

\* ------------------------------------------------------------------------
\* ModuleManager::register_module
\* ------------------------------------------------------------------------
register_module_start(p, stem) ==
  Start(p, [NoReq EXCEPT !.op = "register", !.m = stem], "register_find")

\* load_script, validate_script, extract_metadata, Utc::now, find_by_id
register_module_find(p) ==
  /\ pc[p] = "register_find"
  /\ IF ~script_exists(req[p].m)
       THEN Finish(p, "ScriptNotFound", tmp[p])
       ELSE IF ~validate_script(modules_dir[req[p].m].text, declarations_of(req[p].m)).ok
       THEN Finish(p, "FieldNotFound", tmp[p])
       ELSE IF ~extract_metadata(modules_dir[req[p].m].text).ok
       THEN Finish(p, "FieldNotFound", tmp[p])
       ELSE Goto(p, "register_write",
                 [tmp[p] EXCEPT !.now = now,
                                !.existing = extract_metadata(modules_dir[req[p].m].text).id
                                               \in DOMAIN moduleInfo])
  /\ UNCHANGED <<now, db, instances, engines, bindingCalls>>

\* the row written by the update branch (created_at NotSet)
register_update_row(old, metadata, stem, t) ==
  [name |-> metadata.name, version |-> metadata.version,
   description |-> metadata.description, script_path |-> stem \o ".js",
   enabled |-> TRUE, created_at |-> old.created_at, updated_at |-> t]

\* the row written by the insert branch
register_insert_row(metadata, stem, t) ==
  [name |-> metadata.name, version |-> metadata.version,
   description |-> metadata.description, script_path |-> stem \o ".js",
   enabled |-> TRUE, created_at |-> t, updated_at |-> t]

\* history: module m is enabled again, requests on m forget the earlier disable
ForgetDisable(m) ==
  [q \in Procs |-> IF req[q].m = m THEN [req[q] EXCEPT !.disabled = FALSE] ELSE req[q]]

\* (a registration that drops the instance of the module it registers)
register_module_write_Unload(p) ==
  /\ pc[p] = "register_write"
  /\ instances' = [m \in DOMAIN instances \ {modules_dir[req[p].m].id} |-> instances[m]]
  /\ Finish(p, "Ok", tmp[p])
  /\ UNCHANGED <<now, db, engines, bindingCalls>>

\* active_model.update / active_model.insert
register_module_write(p) ==
  /\ pc[p] = "register_write"
  /\ LET metadata == extract_metadata(modules_dir[req[p].m].text)
         id == metadata.id
         t == [tmp[p] EXCEPT !.now = 0, !.existing = FALSE]
     IN IF tmp[p].existing
          THEN IF id \in DOMAIN moduleInfo
                 THEN /\ moduleInfo' = [moduleInfo EXCEPT ![id] =
                           register_update_row(@, metadata, req[p].m, tmp[p].now)]
                      /\ FinishWith(p, "Ok", t, ForgetDisable(id))
                      /\ UNCHANGED failures
                 ELSE /\ Finish(p, "DbError", t)
                      /\ UNCHANGED moduleInfo
          ELSE IF id \in DOMAIN moduleInfo
                 THEN /\ Finish(p, "DbError", t)     \* the primary key exists
                      /\ UNCHANGED moduleInfo
                 ELSE /\ moduleInfo' = (id :> register_insert_row(metadata, req[p].m, tmp[p].now))
                                         @@ moduleInfo
                      /\ Finish(p, "Ok", t)
  /\ UNCHANGED <<now, properties, imageCache, files, instances, engines, bindingCalls>>

\* ------------------------------------------------------------------------
\* ModuleManager::load_module (also the first part of call_function)
\* ------------------------------------------------------------------------
load_module_start(p, m) ==
  Start(p, [NoReq EXCEPT !.op = "load", !.m = m], "load_check")

\* (a load_module that never finds the module loaded)
already_loaded_Never(m) == FALSE

\* the already-loaded test of load_module
already_loaded(m) == m \in DOMAIN instances

\* what follows a successful load_module: load_module returns Ok, or
\* call_function goes on to take the read guard
AfterLoad(p) ==
  IF req[p].op = "call"
    THEN Goto(p, "call_read", tmp[p])
    ELSE Finish(p, "Ok", tmp[p])

\* instances.read(), contains_key
load_module_check(p) ==
  /\ pc[p] = "load_check"
  /\ CanRead
  /\ IF already_loaded(req[p].m)
       THEN AfterLoad(p)
       ELSE Goto(p, "load_find", tmp[p])
  /\ UNCHANGED <<now, db, instances, engines, bindingCalls>>

\* (a lookup that finds a descriptor for every id)
find_by_id_Some(module_id) ==
  IF module_id \in DOMAIN moduleInfo THEN <<moduleInfo[module_id]>>
  ELSE <<PersistedRow("a")>>

\* module_info::Entity::find_by_id(module_id).one(): an Option
find_by_id(module_id) ==
  IF module_id \in DOMAIN moduleInfo THEN <<moduleInfo[module_id]>> ELSE <<>>

\* find_by_id, the enabled test
load_module_find(p) ==
  /\ pc[p] = "load_find"
  /\ IF find_by_id(req[p].m) = <<>>
       THEN Finish(p, "ModuleNotFound", tmp[p])
       ELSE IF ~find_by_id(req[p].m)[1].enabled
              THEN Finish(p, "ModuleDisabled", tmp[p])
              ELSE Goto(p, "load_create", tmp[p])
  /\ UNCHANGED <<now, db, instances, engines, bindingCalls>>

\* JsRuntime::load_module: set __MODULE_ID__, evaluate the top-level source
\* (notFound is a history field: a call on this engine has failed to resolve)
runtime_load_module(module_id, script) ==
  [script |-> script, MODULE_ID |-> JsString(module_id), notFound |-> FALSE]

NewEngine == Cardinality(DOMAIN engines) + 1

\* load_script, JsRuntime::new, runtime.load_module
load_module_create(p) ==
  /\ pc[p] = "load_create"
  /\ IF ~script_exists(req[p].m)
       THEN /\ Finish(p, "ScriptNotFound", tmp[p])
            /\ UNCHANGED engines
       ELSE /\ Cardinality(DOMAIN engines) < MaxEngines
            /\ engines' = (NewEngine :> runtime_load_module(req[p].m, req[p].m)) @@ engines
            /\ Goto(p, "load_insert", [tmp[p] EXCEPT !.engine = NewEngine])
  /\ UNCHANGED <<now, db, instances, bindingCalls>>

\* instances.write(), insert
load_module_insert(p) ==
  /\ pc[p] = "load_insert"
  /\ CanWrite
  /\ instances' = (req[p].m :> tmp[p].engine) @@ instances
  /\ AfterLoad(p)
  /\ UNCHANGED <<now, db, engines, bindingCalls>>

\* ------------------------------------------------------------------------
\* ModuleManager::unload_module (also the tail of set_module_enabled)
\* ------------------------------------------------------------------------
unload_module_start(p, m) ==
  Start(p, [NoReq EXCEPT !.op = "unload", !.m = m], "unload_remove")

remove_instance(m) == [k \in DOMAIN instances \ {m} |-> instances[k]]

\* instances.write(), remove
unload_module_remove(p) ==
  /\ pc[p] = "unload_remove"
  /\ CanWrite
  /\ instances' = remove_instance(req[p].m)
  /\ Finish(p, "Ok", tmp[p])
  /\ UNCHANGED <<now, db, engines, bindingCalls>>

\* ------------------------------------------------------------------------
\* ModuleManager::set_module_enabled
\* ------------------------------------------------------------------------
set_module_enabled_start(p, m, enabled) ==
  Start(p, [NoReq EXCEPT !.op = "set_enabled", !.m = m, !.enabled = enabled,
                         !.loaded = m \in DOMAIN instances],
        "enable_find")

\* Utc::now, find_by_id
set_module_enabled_find(p) ==
  /\ pc[p] = "enable_find"
  /\ IF find_by_id(req[p].m) = <<>>
       THEN Finish(p, "ModuleNotFound", tmp[p])
       ELSE Goto(p, "enable_update", [tmp[p] EXCEPT !.now = now])
  /\ UNCHANGED <<now, db, instances, engines, bindingCalls>>

\* (a set_module_enabled that forgets the unload)
after_enable_update_NoUnload(enabled) == "done"

\* where set_module_enabled goes after the update
after_enable_update(enabled) == IF ~enabled THEN "unload_remove" ELSE "done"

\* (an update that deletes the row of the module)
update_enabled_Delete(table, id, enabled, t) ==
  [i \in DOMAIN table \ {id} |-> table[i]]

\* active_model.update: enabled and updated_at are the Set columns
update_enabled(table, id, enabled, t) ==
  [table EXCEPT ![id] = [@ EXCEPT !.enabled = enabled, !.updated_at = t]]

\* the update of set_module_enabled, then unload_module for a disable
set_module_enabled_update(p) ==
  /\ pc[p] = "enable_update"
  /\ moduleInfo' = update_enabled(moduleInfo, req[p].m, req[p].enabled, tmp[p].now)
  /\ IF after_enable_update(req[p].enabled) = "done"
       THEN /\ FinishWith(p, "Ok", [tmp[p] EXCEPT !.now = 0],
                          IF req[p].enabled THEN ForgetDisable(req[p].m) ELSE req)
            /\ UNCHANGED failures
       ELSE Goto(p, after_enable_update(req[p].enabled), [tmp[p] EXCEPT !.now = 0])
  /\ UNCHANGED <<now, properties, imageCache, files, instances, engines, bindingCalls>>

\* ------------------------------------------------------------------------
\* ModuleManager::call_function and JsRuntime::call_function_json
\* ------------------------------------------------------------------------
\* a set_module_enabled(m, false) has completed and nothing has enabled m since
DisableCompleted(m) ==
  /\ m \in DOMAIN moduleInfo
  /\ ~moduleInfo[m].enabled
  /\ \A q \in Procs : ~(req[q].op = "set_enabled" /\ req[q].m = m /\ ~Free(q))

call_function_start(p, m, f) ==
  StartWithin(p, [NoReq EXCEPT !.op = "call", !.m = m, !.f = f,
                               !.disabled = DisableCompleted(m)], "load_check",
              IF f = "main" THEN MaxScriptCalls ELSE MaxRequests)

\* argument texts: objects and arrays, and texts that are no JSON
ArgsTexts ==
  {<<"{", "}">>, <<"[", "1", "]">>, <<"{">>, <<>>, <<"[", "1", "]", "]">>}

\* (a parser that takes every text)
JSON_parse_Any(text) == TRUE
\* JSON.parse(args_json): whether the text is a JSON value
JSON_parse(text) ==
  LET fail == [ok |-> FALSE, rest |-> <<>>]
      RECURSIVE value(_)
      value(ts) ==
        IF ts = <<>> THEN fail
        ELSE IF Head(ts) = "1" THEN [ok |-> TRUE, rest |-> Tail(ts)]
        ELSE IF Head(ts) = "{"
        THEN IF Len(ts) >= 2 /\ ts[2] = "}"
               THEN [ok |-> TRUE, rest |-> SubSeq(ts, 3, Len(ts))] ELSE fail
        ELSE IF Head(ts) = "["
        THEN IF Len(ts) >= 2 /\ ts[2] = "]"
               THEN [ok |-> TRUE, rest |-> SubSeq(ts, 3, Len(ts))]
               ELSE LET r == value(Tail(ts))
                    IN IF r.ok /\ r.rest # <<>> /\ Head(r.rest) = "]"
                         THEN [ok |-> TRUE, rest |-> Tail(r.rest)] ELSE fail
        ELSE fail
  IN  value(text).ok /\ value(text).rest = <<>>

\* (a lookup that takes every name for a function)
is_callable_global_Any(engine, func_name) == TRUE

\* globals.get(func_name) as a Function
is_callable_global(engine, func_name) ==
  func_name \in modules_dir[engines[engine].script].functions \cup NativeFunctions

\* instances.read() and instances.get, then call_function_json resolves the
\* function in global scope; the guard is kept for the whole call
call_function_read(p) ==
  /\ pc[p] = "call_read"
  /\ CanRead
  /\ IF req[p].m \notin DOMAIN instances
       THEN /\ Finish(p, "ModuleNotLoaded", tmp[p])
            /\ UNCHANGED engines
       ELSE LET engine == instances[req[p].m]
                t == [tmp[p] EXCEPT !.engine = engine]
            IN IF ~is_callable_global(engine, req[p].f)
                 THEN /\ Finish(p, "FunctionNotFound", t)
                      /\ engines' = [engines EXCEPT ![engine].notFound = TRUE]
                 ELSE IF ~JSON_parse(req[p].args)
                 THEN /\ Finish(p, "Err", t)
                      /\ UNCHANGED engines
                 ELSE /\ Goto(p, "call_run", t)
                      /\ UNCHANGED engines
  /\ UNCHANGED <<now, db, instances, bindingCalls>>

\* the function returns a value; JSON.stringify; the read guard is dropped
call_function_json_return(p) ==
  /\ pc[p] = "call_run"
  /\ Finish(p, "Ok", [NoTmp EXCEPT !.engine = tmp[p].engine])
  /\ UNCHANGED <<now, db, instances, engines, bindingCalls>>

ManagerStep(p) ==
  \/ \E s \in Stems : register_module_start(p, s)
  \/ register_module_find(p)
  \/ register_module_write(p)
  \/ \E m \in ModuleIds : load_module_start(p, m)
  \/ load_module_check(p)
  \/ load_module_find(p)
  \/ load_module_create(p)
  \/ load_module_insert(p)
  \/ \E m \in ModuleIds : unload_module_start(p, m)
  \/ unload_module_remove(p)
  \/ \E m \in ModuleIds, e \in BOOLEAN : set_module_enabled_start(p, m, e)
  \/ set_module_enabled_find(p)
  \/ set_module_enabled_update(p)
  \/ \E m \in ModuleIds, f \in FuncNames : call_function_start(p, m, f)
  \/ call_function_read(p)
  \/ call_function_json_return(p)

\* Requests interleave at their await points.  The clock stands still in
\* Next: a timestamp is stored and never tested by the Module Manager.
Next == \E p \in Procs : ManagerStep(p)

Spec == Init /\ [][Next]_vars

\* The host application issues one request at a time; the clock advances.
SerialInit == Boot /\ moduleInfo \in InitTables /\ serial = TRUE

SerialNext == Tick \/ Next

SerialSpec == SerialInit /\ [][SerialNext]_vars

\* ------------------------------------------------------------------------
\* The storage binding (bindings/storage.rs), called by the running script
\* of a function that uses storage.  Every native call hands the database
\* work to a thread and joins it: the script waits for the result.
\* ------------------------------------------------------------------------
\* property::Model::create_id
create_id(module_id, key) == module_id \o ":" \o key

\* storage_helper: the module id the helper passes to the native function
helper_module_id(engine) ==
  IF engines[engine].MODULE_ID.t # "undefined"
    THEN js_String(engines[engine].MODULE_ID)
    ELSE "default"

\* the script runs a function that makes binding calls and may make another
InScript(p) ==
  /\ pc[p] = "call_run"
  /\ req[p].f = "main"
  /\ bindingCalls < MaxScriptOps
  /\ bindingCalls' = bindingCalls + 1

\* __native_storage_get_sync__: the value of the row, or the empty string
native_storage_get(module_id, key) ==
  IF create_id(module_id, key) \in DOMAIN properties
    THEN properties[create_id(module_id, key)].value
    ELSE ""

\* storage.get: result || null
helper_get_result(result) == js_or(JsString(result), JsNull)

\* the script calls storage.get(key)
storage_get(p, key) ==
  /\ InScript(p)
  /\ LET module_id == helper_module_id(tmp[p].engine)
     IN Goto(p, "call_run",
             [tmp[p] EXCEPT !.module_id = module_id,
                            !.got = helper_get_result(native_storage_get(module_id, key))])
  /\ UNCHANGED <<now, db, instances, engines>>

\* __native_storage_set_sync__, first half: find_by_id
native_storage_set_find(p, module_id, key, value) ==
  Goto(p, "js_set_write",
       [tmp[p] EXCEPT !.module_id = module_id, !.key = key,
                      !.value = value, !.now = now,
                      !.existing = create_id(module_id, key) \in DOMAIN properties])

\* the script calls storage.set(key, value)
storage_set(p, key, value) ==
  /\ InScript(p)
  /\ native_storage_set_find(p, helper_module_id(tmp[p].engine), key, js_String(value))
  /\ UNCHANGED <<now, db, instances, engines, req>>

\* the script calls __native_storage_set_sync__(module_id, key, value) itself
script_native_set(p, module_id, key, value) ==
  /\ InScript(p)
  /\ native_storage_set_find(p, module_id, key, value)
  /\ UNCHANGED <<now, db, instances, engines, req>>

\* the row of table properties
property_row(old, module_id, key, value, t) ==
  [module_id |-> module_id, key |-> key, value |-> value,
   created_at |-> IF old.present THEN old.created_at ELSE t, updated_at |-> t,
   present |-> TRUE]

\* __native_storage_set_sync__, second half: update or insert; the result
\* (true or false) goes back to the script
native_storage_set_write(p) ==
  /\ pc[p] = "js_set_write"
  /\ LET id == create_id(tmp[p].module_id, tmp[p].key)
         have == id \in DOMAIN properties
         old == IF have THEN properties[id] ELSE NoRow
         row == property_row(old, tmp[p].module_id, tmp[p].key, tmp[p].value, tmp[p].now)
         t == [tmp[p] EXCEPT !.now = 0, !.existing = FALSE, !.key = "", !.value = ""]
     IN IF tmp[p].existing = have
          THEN /\ properties' = (id :> row) @@ properties
               /\ Goto(p, "call_run", [t EXCEPT !.got = JsString("true")])
          ELSE /\ UNCHANGED properties
               /\ Goto(p, "call_run", [t EXCEPT !.got = JsString("false")])
  /\ UNCHANGED <<now, moduleInfo, imageCache, files, instances, engines, bindingCalls>>

\* the script calls storage.remove(key): delete_by_id
storage_remove(p, key) ==
  /\ InScript(p)
  /\ LET module_id == helper_module_id(tmp[p].engine)
         id == create_id(module_id, key)
     IN /\ properties' = [i \in DOMAIN properties \ {id} |-> properties[i]]
        /\ Goto(p, "call_run",
                [tmp[p] EXCEPT !.module_id = module_id, !.got = JsString("true")])
  /\ UNCHANGED <<now, moduleInfo, imageCache, files, instances, engines>>

\* the script assigns the global __MODULE_ID__, or deletes it
script_assign_module_id(p, value) ==
  /\ InScript(p)
  /\ engines' = [engines EXCEPT ![tmp[p].engine].MODULE_ID = value]
  /\ Goto(p, "call_run", tmp[p])
  /\ UNCHANGED <<now, db, instances>>

StorageStep(p) ==
  \/ \E m \in ModuleIds : call_function_start(p, m, "main")
  \/ load_module_check(p)
  \/ call_function_read(p)
  \/ \E k \in StorageKeys : storage_get(p, k)
  \/ \E k \in StorageKeys, v \in StorageValues : storage_set(p, k, JsString(v))
  \/ \E m \in ModuleIds, k \in StorageKeys : script_native_set(p, m, k, "v")
  \/ native_storage_set_write(p)
  \/ \E k \in StorageKeys : storage_remove(p, k)
  \/ \E v \in {JsString(m) : m \in ModuleIds} \cup {JsUndefined} : script_assign_module_id(p, v)
  \/ call_function_json_return(p)

\* Both modules are registered and have been loaded, one engine each.
LoadedEngines ==
  (1 :> runtime_load_module("a", "a")) @@ (2 :> runtime_load_module("b", "b"))

LoadedInstances == ("a" :> 1) @@ ("b" :> 2)

\* Scripts of loaded modules run and use the storage binding.
StorageInit ==
  /\ Quiet
  /\ moduleInfo = [m \in ModuleIds |-> PersistedRow(m)]
  /\ engines = LoadedEngines
  /\ instances = LoadedInstances
  /\ serial = FALSE

StorageNext == \E p \in Procs : StorageStep(p)

StorageSpec == StorageInit /\ [][StorageNext]_vars

\* ------------------------------------------------------------------------
\* The image cache (api/image_cache_api.rs).  The host application writes a
\* payload file and then records it with save_image_to_cache; it asks for
\* the file of a resource with get_cached_image.
\* ------------------------------------------------------------------------
\* image_cache::Model::create_cache_key: the digest of "module_id:url"; the
\* digest names the string, distinct strings have distinct digests here
create_cache_key(module_id, url) == "md5(" \o module_id \o ":" \o url \o ")"

\* Option<i64>::unwrap_or
unwrap_or(option, default) == IF option = <<>> THEN default ELSE option[1]

\* the host has written the payload to file_path and calls
\* save_image_to_cache(module_id, url, file_path, .., expire_days)
save_image_to_cache_start(p, module_id, url, file_path, expire_days) ==
  /\ Arrive(p, [NoReq EXCEPT !.op = "save_image_to_cache", !.m = module_id,
                             !.key = url, !.value = file_path, !.days = expire_days],
            "save_find", MaxRequests)
  /\ files' = files \cup {file_path}
  /\ UNCHANGED <<moduleInfo, properties, imageCache>>

\* now, find_by_id
save_image_to_cache_find(p) ==
  /\ pc[p] = "save_find"
  /\ Goto(p, "save_write",
          [tmp[p] EXCEPT !.now = now,
                         !.existing = create_cache_key(req[p].m, req[p].key) \in DOMAIN imageCache])
  /\ UNCHANGED <<now, db, instances, engines, bindingCalls>>

\* the row of table image_cache
image_cache_row(old, module_id, url, file_path, expire_at, t) ==
  [module_id |-> module_id, url |-> url, file_path |-> file_path,
   expire_at |-> expire_at,
   created_at |-> IF old.present THEN old.created_at ELSE t, present |-> TRUE]

\* update or insert
save_image_to_cache_write(p) ==
  /\ pc[p] = "save_write"
  /\ LET cache_key == create_cache_key(req[p].m, req[p].key)
         have == cache_key \in DOMAIN imageCache
         old == IF have THEN imageCache[cache_key] ELSE NoRow
         expire_at == tmp[p].now + unwrap_or(req[p].days, DefaultExpireDays)
         row == image_cache_row(old, req[p].m, req[p].key, req[p].value,
                                expire_at, tmp[p].now)
     IN IF tmp[p].existing = have
          THEN /\ imageCache' = (cache_key :> row) @@ imageCache
               /\ Finish(p, "Ok", NoTmp)
          ELSE /\ UNCHANGED imageCache
               /\ Finish(p, "DbErr", NoTmp)
  /\ UNCHANGED <<now, moduleInfo, properties, files, instances, engines, bindingCalls>>

get_cached_image_start(p, module_id, url) ==
  Start(p, [NoReq EXCEPT !.op = "get_cached_image", !.m = module_id, !.key = url],
        "cache_find")

\* find_by_id
get_cached_image_find(p) ==
  /\ pc[p] = "cache_find"
  /\ LET cache_key == create_cache_key(req[p].m, req[p].key)
     IN IF cache_key \in DOMAIN imageCache
          THEN Goto(p, "cache_check", [tmp[p] EXCEPT !.row = imageCache[cache_key]])
          ELSE Finish(p, "None", tmp[p])
  /\ UNCHANGED <<now, db, instances, engines, bindingCalls>>

\* (a test that takes an entry that expires now for a fresh one)
is_fresh_OrNow(cache, t) == cache.expire_at >= t

\* cache.expire_at > now
is_fresh(cache, t) == cache.expire_at > t

\* (a test that finds every payload file)
metadata_is_ok_Always(file_path) == TRUE

\* fs::metadata(&cache.file_path).await.is_ok()
metadata_is_ok(file_path) == file_path \in files

\* now, the expiry test, then fs::metadata or fs::remove_file
get_cached_image_check(p) ==
  /\ pc[p] = "cache_check"
  /\ LET cache == tmp[p].row
         t == [tmp[p] EXCEPT !.now = now]
     IN IF is_fresh(cache, now)
          THEN /\ UNCHANGED files
               /\ IF metadata_is_ok(cache.file_path)
                    THEN Finish(p, "Some", t)
                    ELSE Goto(p, "cache_delete", t)
          ELSE /\ files' = files \ {cache.file_path}
               /\ Goto(p, "cache_delete", t)
  /\ UNCHANGED <<now, moduleInfo, properties, imageCache, instances, engines, bindingCalls>>

\* delete_by_id, Ok(None)
get_cached_image_delete(p) ==
  /\ pc[p] = "cache_delete"
  /\ LET cache_key == create_cache_key(req[p].m, req[p].key)
     IN imageCache' = [k \in DOMAIN imageCache \ {cache_key} |-> imageCache[k]]
  /\ Finish(p, "None", tmp[p])
  /\ UNCHANGED <<now, moduleInfo, properties, files, instances, engines, bindingCalls>>

\* a payload file disappears from the cache directory (the system purges it)
file_lost(file_path) ==
  /\ file_path \in files
  /\ files' = files \ {file_path}
  /\ UNCHANGED <<now, moduleInfo, properties, imageCache, instances, engines,
                 pc, req, tmp, res, issued, bindingCalls, serial, config, failures,
                 cells>>

CacheStep(p) ==
  \/ \E m \in ModuleIds, u \in CacheUrls, f \in CachePaths,
        d \in {<<>>} \cup {<<n>> : n \in ExpireDays} :
       save_image_to_cache_start(p, m, u, f, d)
  \/ save_image_to_cache_find(p)
  \/ save_image_to_cache_write(p)
  \/ \E m \in ModuleIds, u \in CacheUrls : get_cached_image_start(p, m, u)
  \/ get_cached_image_find(p)
  \/ get_cached_image_check(p)
  \/ get_cached_image_delete(p)

\* The host application issues one cache request at a time; the clock
\* advances and payload files may disappear.
CacheInit == Boot /\ moduleInfo = <<>> /\ serial = TRUE

CacheNext ==
  \/ Tick
  \/ \E f \in CachePaths : file_lost(f)
  \/ \E p \in Procs : CacheStep(p)

CacheSpec == CacheInit /\ [][CacheNext]_vars

\* ------------------------------------------------------------------------
\* The result of a call: JsRuntime::call_function_json after func.call, and
\* the typed wrappers of the Module Manager that deserialize it.
\* ------------------------------------------------------------------------
\* the exception of an engine that has reached the memory ceiling or the
\* stack depth set by JsRuntime::new
ResourceLimit == JsErrorObject("out of memory", "")

\* what invoked functions return, and what they throw or reject with
ReturnValues == {JsString("v"), JsNull, JsUndefined, JsArray, JsObject("ComicsPage")}
ThrownValues ==
  {JsErrorObject("boom", "at getCategories"), JsErrorObject("boom", ""), JsString("boom"),
   ResourceLimit}

\* what the invoked function does: it returns a value, throws, or returns a
\* promise that is fulfilled, rejected, or stays pending when the job queue
\* has run dry
ScriptOutcomes ==
  [kind : {"value"}, v : ReturnValues]
    \cup [kind : {"throw"}, v : ThrownValues]
    \cup [kind : {"fulfilled"}, v : ReturnValues]
    \cup [kind : {"rejected"}, v : ThrownValues]
    \cup [kind : {"pending"}, v : {JsUndefined}]

Ok(json) == [ok |-> TRUE, text |-> json]
Err(message) == [ok |-> FALSE, text |-> message]

\* the message built from the caught exception of a rejected promise
promise_error_msg(exc) ==
  CASE exc.t = "error" -> <<"JS Error: ", exc.v, "\nStack: ", exc.stack>>
    [] exc.t = "string" -> <<"JS Error: ", exc.v>>
    [] OTHER -> <<"JS Error: ", js_String(exc)>>

\* the final serialisation: JSON.stringify(final_value)?
stringify_final(final_value) ==
  IF JSON_stringify(final_value).ok
    THEN Ok(JSON_stringify(final_value).json)
    ELSE Err(<<"Error converting from js 'undefined' into type 'string'">>)

\* call_function_json from func.call on
call_function_json_result(returned) ==
  CASE returned.kind = "throw" -> Err(<<"Exception generated by QuickJS">>)
    [] returned.kind = "value" -> stringify_final(returned.v)
    [] returned.kind = "fulfilled" -> stringify_final(returned.v)
    [] returned.kind = "pending" -> stringify_final(JsNull)
    [] returned.kind = "rejected" ->
         Err(<<"JS Promise Error: ">> \o promise_error_msg(returned.v))

\* the typed wrappers: the function they invoke, the record they expect
WrapperFunction == [get_categories |-> "getCategories", get_comics |-> "getComics"]
WrapperType == [get_categories |-> "Vec<Category>", get_comics |-> "ComicsPage"]
TypedWrappers == DOMAIN WrapperFunction

\* serde_json::from_str::<T>(json): whether the text is a T, and the error
from_str(json, type) ==
  IF \/ type = "Vec<Category>" /\ json = "[]"
     \/ type = "ComicsPage" /\ json = "{ComicsPage}"
    THEN Ok(json)
    ELSE Err(<<"invalid type: ", json, ", expected ", type>>)

\* what the wrapper makes of the result of call_function
wrapper_result(wrapper, result) ==
  CASE ~result.ok -> result
    [] wrapper = "" -> result
    [] wrapper = "get_comics" ->
         IF from_str(result.text, WrapperType[wrapper]).ok
           THEN result
           ELSE Err(<<"Failed to parse ComicsPage: ">>
                      \o from_str(result.text, WrapperType[wrapper]).text)
    [] OTHER -> from_str(result.text, WrapperType[wrapper])

\* get_categories(module_id), get_comics(module_id, ..)
typed_wrapper_start(p, m, wrapper) ==
  Start(p, [NoReq EXCEPT !.op = "call", !.m = m, !.f = WrapperFunction[wrapper],
                         !.wrapper = wrapper, !.disabled = DisableCompleted(m)],
        "load_check")

\* func.call to the end of call_function_json, call_function and the wrapper
call_function_json_finish(p, returned) ==
  /\ pc[p] = "call_run"
  /\ LET result == wrapper_result(req[p].wrapper, call_function_json_result(returned))
     IN FinishWith(p, IF result.ok THEN "Ok" ELSE "Err",
                   [NoTmp EXCEPT !.engine = tmp[p].engine, !.returned = returned,
                                 !.out = result.text], req)
  /\ failures' = IF returned.v = ResourceLimit /\ failures[tmp[p].engine] < MaxFailures
                   THEN [failures EXCEPT ![tmp[p].engine] = @ + 1] ELSE failures
  /\ UNCHANGED <<now, db, instances, engines, bindingCalls>>

ResultStep(p) ==
  \/ \E m \in ModuleIds : call_function_start(p, m, "getCategories")
  \/ \E m \in ModuleIds, w \in TypedWrappers : typed_wrapper_start(p, m, w)
  \/ load_module_check(p)
  \/ call_function_read(p)
  \/ \E o \in ScriptOutcomes : call_function_json_finish(p, o)

\* Functions of loaded modules are called, directly and through wrappers.
ResultInit == StorageInit

ResultNext == \E p \in Procs : ResultStep(p)

ResultSpec == ResultInit /\ [][ResultNext]_vars

\* ------------------------------------------------------------------------
\* ModuleLoader::extract_metadata on script texts: metadata objects with a
\* quoted or unquoted id key, a name with or without an apostrophe, with or
\* without version and description, after text that has an entry of its own
\* or none.
\* ------------------------------------------------------------------------
NameValues == {<<"A">>, <<"Niu", "'", "s">>}

MetadataObjects ==
  { << Entry("", "id", quoted, <<"a">>, TRUE), Entry("", "name", FALSE, name, TRUE) >>
    \o (IF version THEN << Entry("", "version", FALSE, <<"1.0">>, TRUE) >> ELSE <<>>)
    \o (IF description THEN << Entry("", "description", FALSE, <<"first">>, TRUE) >>
        ELSE <<>>)
    : quoted \in BOOLEAN, name \in NameValues, version \in BOOLEAN,
      description \in BOOLEAN }

\* text before the metadata object: nothing, a request header uuid: "x", a
\* record with description: "d"
Preludes ==
  { <<>>, << Entry("uu", "id", FALSE, <<"x">>, FALSE) >>,
    << Entry("", "description", FALSE, <<"d">>, FALSE) >> }

ScriptTexts == {prelude \o object : prelude \in Preludes, object \in MetadataObjects}

extract_metadata_start(p, script) ==
  Start(p, [NoReq EXCEPT !.op = "extract", !.script = script], "extract_metadata")

\* the call returns Ok(ModuleMetadata) or the error of extract_field
extract_metadata_return(p) ==
  /\ pc[p] = "extract_metadata"
  /\ LET metadata == extract_metadata(req[p].script)
     IN Finish(p, IF metadata.ok THEN "Ok" ELSE "FieldNotFound",
               [tmp[p] EXCEPT !.metadata = metadata])
  /\ UNCHANGED <<now, db, instances, engines, bindingCalls>>

ParseStep(p) ==
  \/ \E script \in ScriptTexts : extract_metadata_start(p, script)
  \/ extract_metadata_return(p)

ParseInit == Init

ParseNext == \E p \in Procs : ParseStep(p)

ParseSpec == ParseInit /\ [][ParseNext]_vars

\* ------------------------------------------------------------------------
\* JsRuntime::new: Context::full, then bindings::register_all installs the
\* bindings one after the other.  A step that evaluates source fails with a
\* ReferenceError when the source reads a global that is not defined.
\* ------------------------------------------------------------------------
\* the steps of register_all: the globals a step reads when it runs and the
\* globals it defines
RegisterSteps ==
  << [name |-> "console", reads |-> {}, defines |-> {"console"}],
     [name |-> "http", reads |-> {},
      defines |-> {"__native_http_request_sync__", "http"}],
     [name |-> "crypto", reads |-> {}, defines |-> {"crypto"}],
     [name |-> "storage", reads |-> {}, defines |-> NativeFunctions \cup {"storage"}],
     [name |-> "html", reads |-> {}, defines |-> {"__html__"}],
     [name |-> "runtime", reads |-> {"http", "storage", "__crypto__", "console", "__html__"},
      defines |-> {"runtime"}] >>

\* the globals of Context::full that scripts of the bindings use
IntrinsicGlobals == {"JSON"}

\* a caller constructs a script runtime
JsRuntime_new_start(p) == Start(p, [NoReq EXCEPT !.op = "new"], "register_all")

\* Runtime::new, Context::full on the first step; one step of register_all
register_all_step(p) ==
  /\ pc[p] = "register_all"
  /\ LET i == tmp[p].step + 1
         globals == IF i = 1 THEN IntrinsicGlobals ELSE tmp[p].globals
         step == RegisterSteps[i]
     IN IF ~(step.reads \subseteq globals)
          THEN Finish(p, "ReferenceError", [tmp[p] EXCEPT !.step = i, !.globals = globals])
          ELSE IF i = Len(RegisterSteps)
                 THEN Finish(p, "Ok", [tmp[p] EXCEPT !.step = i,
                                         !.globals = globals \cup step.defines])
                 ELSE Goto(p, "register_all",
                           [tmp[p] EXCEPT !.step = i, !.globals = globals \cup step.defines])
  /\ UNCHANGED <<now, db, instances, engines, bindingCalls>>

NewStep(p) ==
  \/ JsRuntime_new_start(p)
  \/ register_all_step(p)

\* Script runtimes are constructed, as the tests of runtime.rs do.
NewInit == Init

NewNext == \E p \in Procs : NewStep(p)

NewSpec == NewInit /\ [][NewNext]_vars

\* ------------------------------------------------------------------------
\* The bridge between the script and asynchronous host work: a native
\* function spawns a thread that runs the work on a runtime of its own and
\* joins it (bindings/http.rs, bindings/storage.rs).  The thread finishes
\* with a result, finishes with an error, panics, or does not finish.
\* ------------------------------------------------------------------------
NativeKinds == {"http", "get", "set", "remove"}
WorkerOutcomes == {"ok", "err", "panic"}

\* the object JSON.parse makes of {"error": message}
HttpError(message) == [t |-> "object", v |-> "error", error |-> message]

\* the script calls http.get / http.post / http.request, or the native
\* function with a text of its own: the configuration is parsed, the thread
\* is spawned
native_http_request_spawn(p, valid) ==
  /\ InScript(p)
  /\ IF valid
       THEN Goto(p, "bridge_join",
                 [tmp[p] EXCEPT !.native = "http", !.worker = "running"])
       ELSE Goto(p, "call_run",
                 [tmp[p] EXCEPT !.native = "http", !.worker = "none",
                                !.got = HttpError("Failed to parse request")])
  /\ UNCHANGED <<now, db, instances, engines>>

\* the script calls storage.get / set / remove: the thread is spawned
native_storage_spawn(p, kind, key) ==
  /\ InScript(p)
  /\ Goto(p, "bridge_join",
          [tmp[p] EXCEPT !.native = kind, !.worker = "running",
                         !.module_id = helper_module_id(tmp[p].engine),
                         !.key = key, !.value = IF kind = "set" THEN "v" ELSE ""])
  /\ UNCHANGED <<now, db, instances, engines>>

\* the work of the thread on the table properties
worker_properties(kind, module_id, key, value, t) ==
  LET id == create_id(module_id, key)
      old == IF id \in DOMAIN properties THEN properties[id] ELSE NoRow
  IN CASE kind = "set" -> (id :> property_row(old, module_id, key, value, t)) @@ properties
       [] kind = "remove" -> [i \in DOMAIN properties \ {id} |-> properties[i]]
       [] OTHER -> properties

\* the thread of p finishes: with the result of its work, with an error of
\* the request or the database, or with a panic
worker_finish(p, outcome) ==
  /\ pc[p] = "bridge_join"
  /\ tmp[p].worker = "running"
  /\ properties' = IF outcome = "ok"
                     THEN worker_properties(tmp[p].native, tmp[p].module_id,
                                            tmp[p].key, tmp[p].value, now)
                     ELSE properties
  /\ Goto(p, "bridge_join",
          [tmp[p] EXCEPT !.worker = outcome,
                         !.value = IF outcome = "ok" /\ tmp[p].native = "get"
                                     THEN native_storage_get(tmp[p].module_id, tmp[p].key)
                                     ELSE ""])
  /\ UNCHANGED <<now, moduleInfo, imageCache, files, instances, engines, bindingCalls>>

\* (a join that takes a panic of the thread for its result)
thread_panicked_Never(worker) == FALSE

\* JoinHandle::join gives Err when the thread has panicked
thread_panicked(worker) == worker = "panic"

\* what the native function and its helper hand to the script after join
native_result(kind, worker, value) ==
  CASE kind = "http" ->
         IF thread_panicked(worker) THEN HttpError("HTTP request thread panicked")
         ELSE IF worker = "err" THEN HttpError("Request failed")
         ELSE JsObject("response")
    [] kind = "get" ->
         IF thread_panicked(worker) \/ worker = "err"
           THEN helper_get_result("")
           ELSE helper_get_result(value)
    [] OTHER ->
         IF thread_panicked(worker) \/ worker = "err"
           THEN JsString("false")
           ELSE JsString("true")

\* join returns: the native function returns to the script
bridge_join(p) ==
  /\ pc[p] = "bridge_join"
  /\ tmp[p].worker \in WorkerOutcomes
  /\ Goto(p, "call_run",
          [tmp[p] EXCEPT !.got = native_result(tmp[p].native, tmp[p].worker, tmp[p].value),
                         !.key = "", !.value = ""])
  /\ UNCHANGED <<now, db, instances, engines, bindingCalls>>

\* the steps of the caller and of its script
CallerStep(p) ==
  \/ \E m \in ModuleIds : call_function_start(p, m, "main")
  \/ load_module_check(p)
  \/ call_function_read(p)
  \/ \E valid \in BOOLEAN : native_http_request_spawn(p, valid)
  \/ \E kind \in NativeKinds \ {"http"}, k \in StorageKeys : native_storage_spawn(p, kind, k)
  \/ bridge_join(p)
  \/ call_function_json_return(p)

BridgeStep(p) ==
  \/ CallerStep(p)
  \/ \E outcome \in WorkerOutcomes : worker_finish(p, outcome)

\* Scripts of loaded modules make binding calls that cross the bridge.
BridgeInit == StorageInit

BridgeNext == \E p \in Procs : BridgeStep(p)

BridgeSpec == BridgeInit /\ [][BridgeNext]_vars

\* Every caller and every script goes on when it can; nothing makes a
\* spawned thread finish.
BridgeLiveSpec == BridgeSpec /\ \A p \in Procs : WF_vars(CallerStep(p))

\* ========================================================================
\* Properties
\* ========================================================================

\* engines of module m that exist: the registered instance and the engines
\* that load requests have built and are about to insert
LiveEngines(m) ==
  {instances[k] : k \in DOMAIN instances \cap {m}}
    \cup {tmp[p].engine : p \in {q \in Procs : pc[q] = "load_insert" /\ req[q].m = m}}

\* C1: concurrent load requests for a module that is not loaded converge on
\* one instance: at no time does a second engine exist for the module (no
\* second engine is created, the top-level source is not executed twice).
C1_SingleEngine == \A m \in ModuleIds : Cardinality(LiveEngines(m)) <= 1

\* C2: load_module on a module that has an instance returns Ok, creates no
\* engine and leaves the registry as it was.
C2_LoadIdempotent ==
  [][\A p \in Procs :
       (pc[p] = "load_check" /\ req[p].op = "load" /\ pc'[p] # "load_check"
          /\ req[p].m \in DOMAIN instances)
       => /\ pc'[p] = "done"
          /\ res'[p] = "Ok"
          /\ engines' = engines
          /\ instances' = instances]_vars

\* a load_module request that found the module loaded has returned Ok
C2_Witness ==
  \E p \in Procs :
    /\ pc[p] = "done" /\ req[p].op = "load" /\ res[p] = "Ok"
    /\ tmp[p].engine = NoEngine
    /\ req[p].m \in DOMAIN instances

\* C3: the Module Manager lets at most one call_function per module id into
\* the instance: no two requests are inside call_function_json of the same
\* module at the same time.
C3_CallsSerialized ==
  \A p, q \in Procs :
    (p # q /\ pc[p] = "call_run" /\ pc[q] = "call_run")
      => req[p].m # req[q].m

\* C4: when set_module_enabled(m, false) returns Ok, the persisted enabled
\* flag of m is false and the registry holds no instance of m.
C4_DisableUnloads ==
  [][\A p \in Procs :
       (req[p].op = "set_enabled" /\ ~req[p].enabled
          /\ pc[p] # "done" /\ pc'[p] = "done" /\ res'[p] = "Ok")
       => /\ ~moduleInfo'[req[p].m].enabled
          /\ req[p].m \notin DOMAIN instances']_vars

\* a disable of a module that had an instance has returned Ok
C4_Witness ==
  \E p \in Procs :
    /\ pc[p] = "done" /\ req[p].op = "set_enabled" /\ ~req[p].enabled
    /\ req[p].loaded /\ res[p] = "Ok"

\* C5: a call_function(m) that arrives after set_module_enabled(m, false)
\* has completed, with m not enabled since, never gets to execute script of m.
C5_DisabledNeverRuns ==
  \A p \in Procs :
    (req[p].op = "call" /\ req[p].disabled) => pc[p] # "call_run"

\* C6: calling a name that is not a callable global of a loaded module fails
\* with "function not found" and leaves the registry alone; a later call of
\* a declared function on the same instance is invoked and returns Ok.
C6_FunctionNotFound ==
  [][\A p \in Procs :
       /\ (pc[p] = "call_read" /\ pc'[p] # "call_read"
             /\ req[p].m \in DOMAIN instances
             /\ req[p].f \notin Files[engines[instances[req[p].m]].script].functions)
          => /\ pc'[p] = "done"
             /\ res'[p] = "FunctionNotFound"
             /\ instances' = instances
       /\ (pc[p] = "call_read" /\ pc'[p] # "call_read"
             /\ req[p].m \in DOMAIN instances
             /\ req[p].f \in Files[engines[instances[req[p].m]].script].functions)
          => pc'[p] = "call_run"
       /\ (pc[p] = "call_run" /\ pc'[p] # "call_run")
          => (pc'[p] = "done" /\ res'[p] = "Ok")]_vars

\* a declared function has returned Ok on an instance on which an earlier
\* call had failed with "function not found"
C6_Witness ==
  \E p \in Procs :
    /\ pc[p] = "done" /\ req[p].op = "call" /\ res[p] = "Ok"
    /\ engines[tmp[p].engine].notFound
    /\ req[p].m \in DOMAIN instances /\ instances[req[p].m] = tmp[p].engine

\* C7: storage.get(k) returns the value the entry of k holds in the module's
\* namespace, whatever string it is: when the entry exists with value v (the
\* last write of k was storage.set(k, v)), the script gets the string v.
C7_SetGetRoundTrip ==
  [][\A p \in Procs, k \in StorageKeys :
       (storage_get(p, k)
          /\ helper_module_id(tmp[p].engine) = req[p].m
          /\ create_id(req[p].m, k) \in DOMAIN properties)
       => tmp'[p].got = JsString(properties[create_id(req[p].m, k)].value)]_vars

\* C8: every storage operation a script makes works in the namespace of the
\* module id the host assigned to its instance.
C8_StorageIsolated ==
  \A p \in Procs :
    (pc[p] \in {"call_run", "js_set_write"} /\ tmp[p].module_id # "")
      => tmp[p].module_id = engines[tmp[p].engine].script

\* C9: registering a module id that has a row, from the same source, leaves
\* the row as it was except for updated_at, and leaves one row for the id.
C9_ReRegisterKeepsRow ==
  [][\A p \in Procs :
       (pc[p] = "register_write" /\ pc'[p] = "done" /\ res'[p] = "Ok"
          /\ Files[req[p].m].id \in DOMAIN moduleInfo)
       => /\ DOMAIN moduleInfo' = DOMAIN moduleInfo
          /\ moduleInfo'[Files[req[p].m].id] =
               [moduleInfo[Files[req[p].m].id] EXCEPT
                  !.updated_at = moduleInfo'[Files[req[p].m].id].updated_at]]_vars

Names(m, x) == \E i \in DOMAIN m : m[i] = x

\* C11: when the invoked function returned a promise, the call succeeds only
\* if the promise was fulfilled, and then with the JSON of the value it was
\* fulfilled with; it fails if the promise was rejected; it never succeeds
\* for a promise that is still pending.
C11_NoPendingSuccess ==
  \A p \in Procs :
    (pc[p] = "done" /\ req[p].op = "call" /\ req[p].wrapper = ""
       /\ tmp[p].returned.kind \in {"fulfilled", "rejected", "pending"})
    => /\ res[p] = "Ok"
            => /\ tmp[p].returned.kind = "fulfilled"
               /\ JSON_stringify(tmp[p].returned.v).ok
               /\ tmp[p].out = JSON_stringify(tmp[p].returned.v).json
       /\ tmp[p].returned.kind = "rejected" => res[p] = "Err"

\* C12: a thrown exception and a rejected promise both give a failure whose
\* message carries the message of the script's error, and its stack trace
\* when the error object has one.
C12_ErrorCarriesMessage ==
  \A p \in Procs :
    (pc[p] = "done" /\ req[p].op = "call"
       /\ tmp[p].returned.kind \in {"throw", "rejected"})
    => /\ res[p] = "Err"
       /\ Names(tmp[p].out, tmp[p].returned.v.v)
       /\ (tmp[p].returned.v.t = "error" /\ tmp[p].returned.v.stack # "")
            => Names(tmp[p].out, tmp[p].returned.v.stack)

\* C13: JsRuntime::new succeeds; when it has returned, console, http,
\* storage, crypto, html and the aggregate runtime object are defined in
\* global scope, and no step of the registration has read a global that no
\* earlier step had defined.
C13_BindingsInstalled ==
  \A p \in Procs :
    (pc[p] = "done" /\ req[p].op = "new")
    => /\ res[p] = "Ok"
       /\ {"console", "http", "storage", "crypto", "__html__", "runtime"}
            \subseteq tmp[p].globals
       /\ \A i \in 1..tmp[p].step : RegisterSteps[i].reads \subseteq tmp[p].globals

\* C18: when the JSON a module function returned does not deserialize into
\* the record of the typed wrapper, the failure of the wrapper names the
\* module id and the function that was invoked.
C18_MismatchNamesModule ==
  \A p \in Procs :
    (pc[p] = "done" /\ req[p].op = "call" /\ req[p].wrapper # ""
       /\ call_function_json_result(tmp[p].returned).ok
       /\ ~from_str(call_function_json_result(tmp[p].returned).text,
                    WrapperType[req[p].wrapper]).ok)
    => /\ res[p] = "Err"
       /\ Names(tmp[p].out, req[p].m)
       /\ Names(tmp[p].out, req[p].f)

\* C14: every binding call that crosses the bridge returns to the script,
\* whether or not its thread finishes.
C14_BridgeReturns ==
  \A p \in Procs : (pc[p] = "bridge_join") ~> (pc[p] = "call_run")

\* C15: when the thread of a binding call has panicked, the native function
\* returns to the script with the error value of its kind (an object with an
\* error field for http, the failure result for storage); the script goes
\* on and the instance stays in the registry.
C15_PanicContained ==
  [][\A p \in Procs :
       (pc[p] = "bridge_join" /\ tmp[p].worker = "panic" /\ pc'[p] # "bridge_join")
       => /\ pc'[p] = "call_run"
          /\ CASE tmp[p].native = "http" ->
                    tmp'[p].got.t = "object" /\ tmp'[p].got.v = "error"
               [] tmp[p].native = "get" -> tmp'[p].got = JsNull
               [] OTHER -> tmp'[p].got = JsString("false")
          /\ instances' = instances
          /\ engines' = engines]_vars

\* a script has got the error value of a binding call whose thread panicked
C15_Witness ==
  \E p \in Procs : pc[p] = "call_run" /\ tmp[p].worker = "panic"

\* C16: the number of threads outstanding at the same time stays below a
\* bound that does not grow with the number of callers: fewer threads are
\* outstanding than there are callers.
C16_WorkersBounded ==
  Cardinality({p \in Procs : pc[p] = "bridge_join" /\ tmp[p].worker = "running"})
    < NumProcs

\* C17: a call on module B never waits for a call on another module A that
\* is running: whatever else is pending, the step the call on B is at (the
\* read guards of load_module and call_function, the write guard of the
\* insert when B has to be loaded) can be taken.
C17_CallsIndependent ==
  \A p, q \in Procs :
    (req[p].op = "call" /\ req[q].op = "call" /\ req[p].m # req[q].m
       /\ pc[q] = "call_run")
    => /\ pc[p] \in {"load_check", "call_read"} => CanRead
       /\ pc[p] = "load_insert" => CanWrite

\* C19: extract_metadata fails exactly when the text has no entry that one
\* of the patterns matches for id, for name or for version; without an
\* entry for description the description is empty; when the metadata object
\* declares id, name and version, the call succeeds and returns the declared
\* values; no engine is created.
C19_MetadataAsDeclared ==
  \A p \in Procs :
    (pc[p] = "done" /\ req[p].op = "extract") =>
      LET script == req[p].script
          declared(field) == {i \in DOMAIN script :
                                /\ script[i].meta /\ script[i].prefix = ""
                                /\ script[i].field = field}
          value(field) == Concat(script[CHOOSE i \in declared(field) : TRUE].value)
      IN /\ (res[p] = "Ok") <=>
              \A field \in {"id", "name", "version"} :
                \E i \in DOMAIN script, pattern \in patterns :
                  matches(script[i], field, pattern)
         /\ (res[p] = "Ok" /\ \A i \in DOMAIN script : script[i].field # "description")
              => tmp[p].metadata.description = ""
         /\ (\A field \in {"id", "name", "version"} : declared(field) # {})
              => /\ res[p] = "Ok"
                 /\ tmp[p].metadata.id = value("id")
                 /\ tmp[p].metadata.name = value("name")
                 /\ tmp[p].metadata.version = value("version")
         /\ engines = <<>>

\* C20: no step of the Module Manager removes a row of module_info: the ids
\* registered before a step are registered after it.
C20_DescriptorsKept ==
  [][DOMAIN moduleInfo \subseteq DOMAIN moduleInfo']_vars

\* a disable and unload of a registered module has returned Ok and the
\* module is registered
C20_Witness ==
  \E p \in Procs :
    /\ pc[p] = "done" /\ req[p].op = "set_enabled" /\ ~req[p].enabled
    /\ res[p] = "Ok" /\ req[p].m \in DOMAIN moduleInfo
    /\ ~moduleInfo[req[p].m].enabled

C22_UnknownModuleRejected ==
  [][\A p \in Procs :
       (req[p].op \in {"load", "call", "set_enabled"}
          /\ req[p].m \notin DOMAIN moduleInfo
          /\ pc[p] \notin {"idle", "done"} /\ pc'[p] # pc[p])
       => /\ instances' = instances
          /\ db' = db
          /\ pc'[p] \in {"load_find", "done"}
          /\ pc'[p] = "done" => res'[p] = "ModuleNotFound"]_vars

\* a call on an id that is not registered has ended with "module not found"
C22_Witness ==
  \E p \in Procs :
    /\ pc[p] = "done" /\ req[p].op = "call" /\ res[p] = "ModuleNotFound"
    /\ req[p].m \notin DOMAIN moduleInfo
    /\ req[p].m \notin DOMAIN instances

\* C23: the value a binding call hands to the script when the host work has
\* failed (the request text does not parse, the worker ends with an error)
\* differs from the value of every call of the same binding whose work has
\* succeeded.
C23_FailureDistinct ==
  \A p, q \in Procs :
    (pc[p] = "call_run" /\ pc[q] = "call_run"
       /\ tmp[p].native # "" /\ tmp[p].native = tmp[q].native
       /\ (tmp[p].worker = "err" \/ (tmp[p].native = "http" /\ tmp[p].worker = "none"))
       /\ tmp[q].worker = "ok")
    => tmp[p].got # tmp[q].got

\* ------------------------------------------------------------------------
\* ProxyManager (http/proxy.rs).  A URL is the sequence of its parts; " " is
\* white space.  An Option is <<>> (None) or <<x>> (Some(x)).
\* ------------------------------------------------------------------------
ProxyUrls ==
  {<<>>, <<" ">>, <<"http://", "h">>, <<"socks5://", "h">>, <<"https://", "h">>,
   <<"h">>, <<" ", "http://", "h", " ">>, <<" ", "h">>}

\* str::trim
trim(url) ==
  LET RECURSIVE trim_start(_)
      trim_start(u) == IF u # <<>> /\ Head(u) = " " THEN trim_start(Tail(u)) ELSE u
      RECURSIVE trim_end(_)
      trim_end(u) == IF u # <<>> /\ u[Len(u)] = " "
                     THEN trim_end(SubSeq(u, 1, Len(u) - 1)) ELSE u
  IN  trim_end(trim_start(url))

\* (a test that takes every prefix for the one asked for)
starts_with_Any(url, prefix) == TRUE
\* str::starts_with
starts_with(url, prefix) == url # <<>> /\ Head(url) = prefix

\* ProxyConfig::from_str: [ok, url]
ProxyConfig_from_str(url) ==
  LET trimmed == trim(url) IN
    IF trimmed = <<>> THEN [ok |-> FALSE, url |-> <<>>]
    ELSE IF ~starts_with(trimmed, "http://") /\ ~starts_with(trimmed, "socks5://")
    THEN [ok |-> FALSE, url |-> <<>>]
    ELSE [ok |-> TRUE, url |-> trimmed]

\* the thread ends its operation with result r and locals t
proxy_return(p, r, t) ==
  /\ pc' = [pc EXCEPT ![p] = "done"]
  /\ res' = [res EXCEPT ![p] = r]
  /\ tmp' = [tmp EXCEPT ![p] = t]
  /\ UNCHANGED <<now, db, instances, engines, req, issued, bindingCalls, serial,
                 failures, cells>>

\* ProxyManager::set_proxy, under the write lock: the ? of from_str returns
\* before the assignment
set_proxy(p) ==
  /\ pc[p] \in {"set_proxy", "clear_proxy"}
  /\ LET url == req[p].url IN
       IF url # <<>> /\ trim(url[1]) # <<>>
       THEN IF ProxyConfig_from_str(url[1]).ok
            THEN /\ config' = <<ProxyConfig_from_str(url[1]).url>>
                 /\ proxy_return(p, "Ok", tmp[p])
            ELSE /\ UNCHANGED config
                 /\ proxy_return(p, "Err", tmp[p])
       ELSE /\ config' = <<>>
            /\ proxy_return(p, "Ok", tmp[p])

\* ProxyManager::get_proxy, under the read lock
get_proxy(p) ==
  /\ pc[p] = "get_proxy"
  /\ proxy_return(p, "Ok", [tmp[p] EXCEPT !.proxy = config])
  /\ UNCHANGED config

ProxyStep(p) ==
  \/ \E url \in ProxyUrls :
       Start(p, [NoReq EXCEPT !.op = "set_proxy", !.url = <<url>>], "set_proxy")
  \/ Start(p, [NoReq EXCEPT !.op = "set_proxy"], "set_proxy")
  \/ Start(p, [NoReq EXCEPT !.op = "clear_proxy"], "clear_proxy")
  \/ Start(p, [NoReq EXCEPT !.op = "get_proxy"], "get_proxy")
  \/ set_proxy(p)
  \/ get_proxy(p)

ProxyNext == \E p \in Procs : ProxyStep(p)

ProxySpec == Init /\ [][ProxyNext]_vars

\* C24: a set_proxy that succeeds leaves as configuration the URL it was
\* given (white space around it aside), or none when it was given no URL or
\* a blank one, as clear_proxy does; a set_proxy given a URL that starts with
\* neither http:// nor socks5:// fails and leaves the configuration as it
\* was; get_proxy returns the configuration and changes nothing; no other
\* step changes the configuration.
C24_ProxyFollowsLastSet ==
  [][/\ \A p \in Procs :
          /\ (pc[p] \in {"set_proxy", "clear_proxy"} /\ pc'[p] = "done")
             => LET url == req[p].url
                    given == IF url = <<>> THEN <<>> ELSE trim(url[1])
                IN  IF given = <<>>
                    THEN res'[p] = "Ok" /\ config' = <<>>
                    ELSE IF given[1] \in {"http://", "socks5://"}
                    THEN res'[p] = "Ok" /\ config' = <<given>>
                    ELSE res'[p] = "Err" /\ config' = config
          /\ (pc[p] = "get_proxy" /\ pc'[p] = "done")
             => tmp'[p].proxy = config /\ config' = config
     /\ config' # config
        => \E p \in Procs : pc[p] \in {"set_proxy", "clear_proxy"} /\ pc'[p] = "done"]_vars

\* a set_proxy given a URL of another scheme has failed while a proxy was
\* configured, and the proxy is still configured
C24_Witness ==
  \E p \in Procs :
    /\ pc[p] = "done" /\ req[p].op = "set_proxy" /\ res[p] = "Err"
    /\ req[p].url = <<(<<"https://", "h">>)>>
    /\ config = <<(<<"http://", "h">>)>>

\* C25: a call_function on a registered, enabled module does not end with
\* "module not loaded": after load_module has returned Ok, the dispatch finds
\* the instance of the module in the registry, whatever unload_module
\* requests run beside it.
C25_DispatchFindsInstance ==
  \A p \in Procs :
    (pc[p] = "done" /\ req[p].op = "call"
       /\ req[p].m \in DOMAIN moduleInfo /\ moduleInfo[req[p].m].enabled)
    => res[p] # "ModuleNotLoaded"

\* C26: a storage write is an upsert: the write half of storage.set hands
\* true to the script and leaves the record of the pair holding the written
\* value, whether or not the record existed, and whatever other writes of
\* the pair run beside it.
C26_WriteIsUpsert ==
  [][\A p \in Procs :
       (pc[p] = "js_set_write" /\ pc'[p] = "call_run")
       => LET id == create_id(tmp[p].module_id, tmp[p].key)
          IN  /\ tmp'[p].got = JsString("true")
              /\ id \in DOMAIN properties'
              /\ properties'[id].value = tmp[p].value]_vars

\* ------------------------------------------------------------------------
\* The property API of the host (api/property_api.rs).  Module ids and keys
\* are strings of the caller's choice.
\* ------------------------------------------------------------------------
PropertyModuleIds == {"a", "a:b"}
PropertyKeys == {"c", "b:c"}

\* save_property, first half: find_by_id
save_property_find(p) ==
  /\ pc[p] = "save_property"
  /\ Goto(p, "save_property_write",
          [tmp[p] EXCEPT !.now = now,
                         !.existing = create_id(req[p].m, req[p].key) \in DOMAIN properties])
  /\ UNCHANGED <<now, db, instances, engines, bindingCalls>>

\* save_property, second half: update or insert; ? hands the error on
save_property_write(p) ==
  /\ pc[p] = "save_property_write"
  /\ LET id == create_id(req[p].m, req[p].key)
         have == id \in DOMAIN properties
         old == IF have THEN properties[id] ELSE NoRow
         row == property_row(old, req[p].m, req[p].key, req[p].value, tmp[p].now)
     IN IF tmp[p].existing = have
          THEN /\ properties' = (id :> row) @@ properties
               /\ Finish(p, "Ok", tmp[p])
          ELSE /\ UNCHANGED properties
               /\ Finish(p, "Err", tmp[p])
  /\ UNCHANGED <<now, moduleInfo, imageCache, files, instances, engines, bindingCalls>>

\* load_property: find_by_id
load_property(p) ==
  /\ pc[p] = "load_property"
  /\ LET id == create_id(req[p].m, req[p].key)
     IN Finish(p, "Ok", [tmp[p] EXCEPT !.row = IF id \in DOMAIN properties
                                                THEN properties[id] ELSE NoRow])
  /\ UNCHANGED <<now, db, instances, engines, bindingCalls>>

PropertyStep(p) ==
  \/ \E m \in PropertyModuleIds, k \in PropertyKeys, v \in StorageValues :
       Start(p, [NoReq EXCEPT !.op = "save_property", !.m = m, !.key = k, !.value = v],
             "save_property")
  \/ \E m \in PropertyModuleIds, k \in PropertyKeys :
       Start(p, [NoReq EXCEPT !.op = "load_property", !.m = m, !.key = k],
             "load_property")
  \/ save_property_find(p)
  \/ save_property_write(p)
  \/ load_property(p)

PropertyNext == \E p \in Procs : PropertyStep(p)

PropertySpec == Init /\ [][PropertyNext]_vars

\* C27: two requests of the property API whose (module_id, key) pairs have
\* the same record identity have the same pair, and the record a
\* load_property finds is a record of the pair it asked for.
C27_IdentityInjective ==
  /\ \A p, q \in Procs :
       (req[p].op \in {"save_property", "load_property"}
          /\ req[q].op \in {"save_property", "load_property"}
          /\ create_id(req[p].m, req[p].key) = create_id(req[q].m, req[q].key))
       => (req[p].m = req[q].m /\ req[p].key = req[q].key)
  /\ \A p \in Procs :
       (pc[p] = "done" /\ req[p].op = "load_property" /\ tmp[p].row.present)
       => (tmp[p].row.module_id = req[p].m /\ tmp[p].row.key = req[p].key)

\* ------------------------------------------------------------------------
\* Calls that load the module they call, and whose function returns, throws
\* or rejects.
\* ------------------------------------------------------------------------
RecoverStep(p) ==
  \/ \E m \in ModuleIds : call_function_start(p, m, "getCategories")
  \/ load_module_check(p)
  \/ load_module_find(p)
  \/ load_module_create(p)
  \/ load_module_insert(p)
  \/ call_function_read(p)
  \/ \E o \in ScriptOutcomes : call_function_json_finish(p, o)

RecoverNext == \E p \in Procs : RecoverStep(p)

RecoverSpec == Init /\ [][RecoverNext]_vars

\* C28: the end of a call whose function threw, rejected or returned a value
\* that does not serialize is a failure that leaves the registry and the
\* engines as they were; a call that finds the module loaded goes on to the
\* dispatch without creating an engine, dispatches to the instance of the
\* registry, and succeeds when its function returns a serializable value.
C28_FailureKeepsInstance ==
  [][\A p \in Procs :
       /\ (pc[p] = "call_run" /\ pc'[p] = "done"
             /\ (tmp'[p].returned.kind \in {"throw", "rejected"}
                   \/ (tmp'[p].returned.v.t = "undefined"
                         /\ tmp'[p].returned.kind # "pending")))
          => res'[p] = "Err" /\ instances' = instances /\ engines' = engines
       /\ (pc[p] = "load_check" /\ pc'[p] # "load_check" /\ req[p].m \in DOMAIN instances)
          => pc'[p] = "call_read" /\ instances' = instances /\ engines' = engines
       /\ (pc[p] = "call_read" /\ pc'[p] = "call_run")
          => tmp'[p].engine = instances[req[p].m] /\ engines' = engines
       /\ (pc[p] = "call_run" /\ pc'[p] = "done"
             /\ tmp'[p].returned.kind \in {"value", "fulfilled"}
             /\ tmp'[p].returned.v.t # "undefined")
          => res'[p] = "Ok" /\ instances' = instances /\ engines' = engines]_vars

\* a call has failed on a thrown exception or a rejected promise; its engine
\* is still the instance of the module, and another call of the module has
\* found the module loaded and is about to dispatch
C28_Witness ==
  \E p, q \in Procs :
    /\ pc[p] = "done" /\ res[p] = "Err"
    /\ tmp[p].returned.kind \in {"throw", "rejected"}
    /\ pc[q] = "call_read" /\ req[q].m = req[p].m
    /\ req[p].m \in DOMAIN instances /\ instances[req[p].m] = tmp[p].engine
    /\ Cardinality(DOMAIN engines) = 1

\* ------------------------------------------------------------------------
\* Calls of loaded modules with a function name and an argument text of the
\* caller's choice.
\* ------------------------------------------------------------------------
ArgsStep(p) ==
  \/ \E m \in ModuleIds, f \in FuncNames, a \in ArgsTexts :
       Start(p, [NoReq EXCEPT !.op = "call", !.m = m, !.f = f, !.args = a], "load_check")
  \/ load_module_check(p)
  \/ call_function_read(p)
  \/ call_function_json_return(p)

ArgsNext == \E p \in Procs : ArgsStep(p)

ArgsSpec == StorageInit /\ [][ArgsNext]_vars

\* C29: call_function_json resolves the function, then parses the argument
\* text, then invokes: a call of a name that is no function ends with
\* "function not found" whatever the argument text, a call of a function with
\* an argument text that is no JSON ends with a failure, and the function is
\* invoked only when the name is a function and the text is JSON.
C29_ResolveParseInvoke ==
  [][\A p \in Procs :
       (pc[p] = "call_read" /\ pc'[p] # "call_read" /\ req[p].m \in DOMAIN instances)
       => LET found == req[p].f \in Files[engines[instances[req[p].m]].script].functions
                         \cup NativeFunctions
              json == req[p].args \in {<<"{", "}">>, <<"[", "1", "]">>}
          IN  /\ ~found => (pc'[p] = "done" /\ res'[p] = "FunctionNotFound")
              /\ (found /\ ~json) => (pc'[p] = "done" /\ res'[p] = "Err")
              /\ pc'[p] = "call_run" <=> (found /\ json)]_vars

\* a call of a function with an argument text that is no JSON has failed
\* on an engine of its module
C29_Witness ==
  \E p \in Procs :
    /\ pc[p] = "done" /\ req[p].op = "call" /\ res[p] = "Err"
    /\ req[p].f = "getCategories" /\ req[p].args = <<"{">>
    /\ tmp[p].engine = instances[req[p].m]

\* ------------------------------------------------------------------------
\* ModuleLoader::validate_script on script texts with and without entry
\* points, and register_module on the files of the modules directory.
\* ------------------------------------------------------------------------
ValidateTexts ==
  { Metadata("a", "A", "1.0", ""), <<>>,
    << Entry("", "id", FALSE, <<"a">>, TRUE), Entry("", "name", FALSE, <<"A">>, TRUE) >> }

\* no entry point; one; all four, in the three forms; a name with = but
\* without the space
ValidateDeclarations ==
  { {}, {<<"function ", "getCategories">>},
    {<<"function ", "getCategories">>, <<"getComicList", " =">>,
     <<"getComicDetail", ":">>, <<"function ", "getChapterImages">>},
    {<<"getCategories", "=">>} }

\* the call returns Ok(()) or the error of extract_metadata; the warnings
\* go to the log
validate_script_return(p) ==
  /\ pc[p] = "validate_script"
  /\ LET result == validate_script(req[p].script, req[p].declarations)
     IN Finish(p, IF result.ok THEN "Ok" ELSE "FieldNotFound",
               [tmp[p] EXCEPT !.warnings = result.warnings])
  /\ UNCHANGED <<now, db, instances, engines, bindingCalls>>

ValidateStep(p) ==
  \/ \E script \in ValidateTexts, declarations \in ValidateDeclarations :
       Start(p, [NoReq EXCEPT !.op = "validate", !.script = script,
                              !.declarations = declarations], "validate_script")
  \/ validate_script_return(p)
  \/ \E stem \in Stems : register_module_start(p, stem)
  \/ register_module_find(p)
  \/ register_module_write(p)

ValidateNext == \E p \in Procs : ValidateStep(p)

ValidateSpec == Init /\ [][ValidateNext]_vars

\* C30: validate_script succeeds exactly for the texts from which id, name
\* and version can be extracted, whatever entry points the text defines; an
\* entry point that is missing is a warning; register_module of a file whose
\* metadata can be extracted goes on to write its descriptor, whatever entry
\* points the file defines.
C30_MissingEntryPointWarns ==
  [][\A p \in Procs :
       /\ (pc[p] = "validate_script" /\ pc'[p] = "done")
          => /\ res'[p] = "Ok" <=> (/\ extract_field(req[p].script, "id").ok
                                    /\ extract_field(req[p].script, "name").ok
                                    /\ extract_field(req[p].script, "version").ok)
             /\ \A func \in required_functions :
                  func \in tmp'[p].warnings
                    <=> ~\E d \in req[p].declarations :
                           d \in {<<"function ", func>>, <<func, " =">>, <<func, ":">>}
       /\ (pc[p] = "register_find" /\ pc'[p] # "register_find"
             /\ req[p].m \in Stems
             /\ extract_field(Files[req[p].m].text, "id").ok
             /\ extract_field(Files[req[p].m].text, "name").ok
             /\ extract_field(Files[req[p].m].text, "version").ok)
          => pc'[p] = "register_write"]_vars

\* validate_script has succeeded on a text that defines no entry point, with
\* a warning for each of them, and a file without getComicList is registered
C30_Witness ==
  /\ \E p \in Procs :
       /\ pc[p] = "done" /\ req[p].op = "validate" /\ res[p] = "Ok"
       /\ req[p].declarations = {}
       /\ tmp[p].warnings = required_functions
  /\ \E m \in DOMAIN moduleInfo :
       m \notin UNION {DOMAIN t : t \in InitTables} /\ "getComicList" \notin Files[m].functions

\* C31: a load request for a module whose instance has had repeated
\* resource-limit failures does not return with that instance in place: it
\* goes on to the lookup of the descriptor, to create a fresh instance.
C31_UnhealthyDisposed ==
  [][\A p \in Procs :
       (pc[p] = "load_check" /\ pc'[p] # "load_check"
          /\ req[p].m \in DOMAIN instances
          /\ failures[instances[req[p].m]] >= MaxFailures)
       => (pc'[p] = "load_find" \/ req[p].m \notin DOMAIN instances'
             \/ instances'[req[p].m] # instances[req[p].m])]_vars

\* ------------------------------------------------------------------------
\* The manager with its scheduling: the executor runs every task that can
\* go on, the registry lock hands its guards out in the order of the
\* requests, and a script call returns.
\* ------------------------------------------------------------------------
\* a started operation of process p goes on
Proceed(p) ==
  \/ register_module_find(p)
  \/ register_module_write(p)
  \/ load_module_check(p)
  \/ load_module_find(p)
  \/ load_module_create(p)
  \/ load_module_insert(p)
  \/ unload_module_remove(p)
  \/ set_module_enabled_find(p)
  \/ set_module_enabled_update(p)
  \/ call_function_read(p)
  \/ call_function_json_return(p)

\* the host application starts an operation; the operations are on one
\* module: the registry lock is one lock for all modules
LiveStart(p) ==
  \/ \E s \in {"a"} :
       StartWithin(p, [NoReq EXCEPT !.op = "register", !.m = s], "register_find", MaxLive)
  \/ \E m \in {"a"} :
       StartWithin(p, [NoReq EXCEPT !.op = "load", !.m = m], "load_check", MaxLive)
  \/ \E m \in {"a"} :
       StartWithin(p, [NoReq EXCEPT !.op = "unload", !.m = m], "unload_remove", MaxLive)
  \/ \E m \in {"a"}, e \in BOOLEAN :
       StartWithin(p, [NoReq EXCEPT !.op = "set_enabled", !.m = m, !.enabled = e],
                   "enable_find", MaxLive)
  \/ \E m \in {"a"} :
       StartWithin(p, [NoReq EXCEPT !.op = "call", !.m = m, !.f = "getCategories"],
                   "load_check", MaxLive)

LiveNext == \E p \in Procs : LiveStart(p) \/ Proceed(p)

\* the executor runs a task that can go on
LiveSpec == Init /\ [][LiveNext]_vars /\ WF_vars(\E p \in Procs : Proceed(p))

CacheRaceInit == Boot /\ moduleInfo = <<>> /\ serial = FALSE

CacheRaceSpec == CacheRaceInit /\ [][CacheNext]_vars

\* C33: the delete of a lookup removes the record the lookup has read and no
\* other: a record that a save_image_to_cache has written since stays.
C33_SaveSurvivesLookup ==
  [][\A p \in Procs :
       (pc[p] = "cache_delete" /\ pc'[p] = "done")
       => LET cache_key == create_cache_key(req[p].m, req[p].key)
          IN  (cache_key \in DOMAIN imageCache /\ imageCache[cache_key] # tmp[p].row)
              => cache_key \in DOMAIN imageCache']_vars

\* ------------------------------------------------------------------------
\* Registration and loading over the whole modules directory, with engines
\* that fail to be constructed and scripts whose top-level source throws.
\* ------------------------------------------------------------------------
DeclaredIds == {modules_dir[stem].id : stem \in DOMAIN modules_dir}

\* JsRuntime::new()? and runtime.load_module(..)? return the error
LoadErrors == {"RuntimeError", "JsError"}

\* (a load_module that inserts the instance before it evaluates the source)
registry_on_error_Early(p) == (req[p].m :> NoEngine) @@ instances

\* the registry when load_module returns through ?: the insert was not reached
registry_on_error(p) == instances

\* JsRuntime::new or runtime.load_module fails: the runtime is dropped
load_module_error(p, e) ==
  /\ pc[p] = "load_create"
  /\ script_exists(req[p].m)
  /\ instances' = registry_on_error(p)
  /\ Finish(p, e, tmp[p])
  /\ UNCHANGED <<now, db, engines, bindingCalls>>

LoadStep(p) ==
  \/ \E stem \in DOMAIN modules_dir : register_module_start(p, stem)
  \/ register_module_find(p)
  \/ register_module_write(p)
  \/ \E m \in DeclaredIds : load_module_start(p, m)
  \/ load_module_check(p)
  \/ load_module_find(p)
  \/ load_module_create(p)
  \/ \E e \in LoadErrors : load_module_error(p, e)
  \/ load_module_insert(p)
  \/ \E m \in DeclaredIds : unload_module_start(p, m)
  \/ unload_module_remove(p)
  \/ \E m \in DeclaredIds : set_module_enabled_start(p, m, FALSE)
  \/ set_module_enabled_find(p)
  \/ set_module_enabled_update(p)

LoadNext == \E p \in Procs : LoadStep(p)

LoadSpec == Init /\ [][LoadNext]_vars

\* C34: the steps of load_module before its insert leave the registry as it
\* is, and a load_module that ends in a failure ends in one of these steps.
C34_FailedLoadKeepsRegistry ==
  [][\A p \in Procs :
       /\ (pc[p] \in {"load_check", "load_find", "load_create"} /\ pc'[p] # pc[p])
          => instances' = instances
       /\ (req[p].op = "load" /\ pc[p] # "done" /\ pc'[p] = "done" /\ res'[p] # "Ok")
          => (pc[p] \in {"load_find", "load_create"} /\ instances' = instances)]_vars

C34_Witness ==
  \E p \in Procs :
    /\ pc[p] = "done" /\ req[p].op = "load" /\ res[p] = "JsError"
    /\ instances # <<>> /\ req[p].m \notin DOMAIN instances

\* C35: the steps of register_module leave the registry and the engines as
\* they are: an instance loaded before a registration is the instance after.
C35_RegisterKeepsRegistry ==
  [][\A p \in Procs :
       (pc[p] \in {"register_find", "register_write"} /\ pc'[p] # pc[p])
       => (instances' = instances /\ engines' = engines)]_vars

C35_Witness ==
  \E p \in Procs :
    /\ pc[p] = "done" /\ req[p].op = "register" /\ res[p] = "Ok"
    /\ modules_dir[req[p].m].id \in DOMAIN instances

\* C36: a load_module of an id that a registration has persisted does not
\* end with module-not-found or script-not-found.
C36_RegisteredModuleLoads ==
  [][\A p \in Procs :
       (req[p].op = "load" /\ pc[p] # "done" /\ pc'[p] = "done"
          /\ req[p].m \in DOMAIN moduleInfo)
       => res'[p] \notin {"ModuleNotFound", "ScriptNotFound"}]_vars

\* ------------------------------------------------------------------------
\* The entry points of a module
\* ------------------------------------------------------------------------
\* the function names the typed wrappers of the Module Manager pass to
\* call_function: get_categories, get_sort_options, get_comics,
\* get_comic_detail, get_eps, get_pictures, search
InvokedFunctions ==
  {"getCategories", "getSortOptions", "getComics", "getComicDetail", "getEps",
   "getPictures", "search"}

\* C37: a name validate_script looks for, and warns about when the source
\* lacks it, is a function name that a typed wrapper invokes.
C37_WarnedNamesAreInvoked ==
  \A p \in Procs : tmp[p].warnings \subseteq InvokedFunctions

\* ------------------------------------------------------------------------
\* The bulk purge and the statistics of the image cache
\* ------------------------------------------------------------------------
\* image_cache::Column::ExpireAt.lt(now)
ExpireAt_lt(cache, t) == cache.expire_at < t

\* clear_expired_image_cache: Utc::now, find().filter(ExpireAt.lt(now)).all()
clear_expired_image_cache_find(p) ==
  /\ pc[p] = "purge_find"
  /\ Goto(p, "purge_delete",
          [tmp[p] EXCEPT !.now = now,
                         !.caches = {k \in DOMAIN imageCache : ExpireAt_lt(imageCache[k], now)}])
  /\ UNCHANGED <<now, db, instances, engines, bindingCalls>>

\* remove_file for every record found, delete_many().filter(ExpireAt.lt(now))
clear_expired_image_cache_delete(p) ==
  /\ pc[p] = "purge_delete"
  /\ files' = files \ {imageCache[k].file_path : k \in tmp[p].caches \cap DOMAIN imageCache}
  /\ imageCache' = [k \in {c \in DOMAIN imageCache : ~ExpireAt_lt(imageCache[c], tmp[p].now)}
                      |-> imageCache[k]]
  /\ Finish(p, "Ok", tmp[p])
  /\ UNCHANGED <<now, moduleInfo, properties, instances, engines, bindingCalls>>

\* get_image_cache_stats: Utc::now, find().all(), the counting loop
get_image_cache_stats_return(p) ==
  /\ pc[p] = "stats"
  /\ LET expired == {k \in DOMAIN imageCache : imageCache[k].expire_at <= now}
     IN Finish(p, "Ok",
               [tmp[p] EXCEPT !.now = now,
                              !.stats = [total_count |-> Cardinality(DOMAIN imageCache),
                                         valid_count |-> Cardinality(DOMAIN imageCache \ expired),
                                         expired_count |-> Cardinality(expired)]])
  /\ UNCHANGED <<now, db, instances, engines, bindingCalls>>

PurgeStep(p) ==
  \/ Start(p, [NoReq EXCEPT !.op = "clear_expired"], "purge_find")
  \/ clear_expired_image_cache_find(p)
  \/ clear_expired_image_cache_delete(p)
  \/ Start(p, [NoReq EXCEPT !.op = "stats"], "stats")
  \/ get_image_cache_stats_return(p)

PurgeNext ==
  \/ Tick
  \/ \E file_path \in CachePaths : file_lost(file_path)
  \/ \E p \in Procs : CacheStep(p) \/ PurgeStep(p)

PurgeSpec == CacheInit /\ [][PurgeNext]_vars

\* C38: the records the bulk purge finds expired, and the number of records
\* the statistics count as expired, are the records the lookup takes for
\* expired at the same time.
C38_SameClassification ==
  [][\A p \in Procs :
       LET expired == {k \in DOMAIN imageCache : ~is_fresh(imageCache[k], now)}
       IN /\ (pc[p] = "purge_find" /\ pc'[p] # pc[p]) => tmp'[p].caches = expired
          /\ (pc[p] = "stats" /\ pc'[p] # pc[p])
             => tmp'[p].stats.expired_count = Cardinality(expired)]_vars

\* ------------------------------------------------------------------------
\* init_application and is_initialized
\* ------------------------------------------------------------------------
\* a step of init_application: the thread moves on, or returns r
init_move(p, next, r) ==
  /\ pc' = [pc EXCEPT ![p] = next]
  /\ res' = [res EXCEPT ![p] = r]
  /\ UNCHANGED <<now, db, instances, engines, req, tmp, issued, bindingCalls, serial,
                 failures>>

\* OnceCell::set of every cell of names, in their order: the first cell that
\* is set already ends the function with the error of map_err(..)?
init_set(p, names, next) ==
  IF names \cap cells # {}
    THEN /\ cells' = cells \cup {Cells[i] : i \in {j \in DOMAIN Cells :
                                    /\ Cells[j] \in names
                                    /\ \A k \in 1..j : Cells[k] \in names => Cells[k] \notin cells}}
         /\ init_move(p, "done", "Err")
    ELSE /\ cells' = cells \cup names
         /\ init_move(p, next, res[p])

\* ROOT_PATH.set(root_path)?
init_application_root(p) ==
  /\ pc[p] = "init_root"
  /\ init_set(p, {"ROOT_PATH"}, "init_directories")
  /\ UNCHANGED config

\* create_dir_all of the three directories, then the three directory cells
init_application_directories(p, created) ==
  /\ pc[p] = "init_directories"
  /\ IF created
       THEN init_set(p, {"directories", "DATABASE_DIR", "MODULES_DIR", "CACHE_DIR"},
                     "init_database")
       ELSE init_move(p, "done", "Err") /\ UNCHANGED cells
  /\ UNCHANGED config

\* init_database: connect, run_migrations, DATABASE.set; init_module_manager
init_database(p, migrated) ==
  /\ pc[p] = "init_database"
  /\ IF migrated
       THEN init_set(p, {"DATABASE", "MODULE_MANAGER"}, "init_proxy")
       ELSE init_move(p, "done", "Err") /\ UNCHANGED cells
  /\ UNCHANGED config

\* init_proxy: load_app_setting; no setting is stored: clear_proxy
init_proxy(p, loaded) ==
  /\ pc[p] = "init_proxy"
  /\ IF loaded
       THEN /\ config' = <<>>
            /\ cells' = cells \cup {"proxy"}
            /\ init_move(p, "done", "Ok")
       ELSE init_move(p, "done", "Err") /\ UNCHANGED <<cells, config>>

\* is_initialized: crate::get_root_path().is_some()
is_initialized == "ROOT_PATH" \in cells

is_initialized_return(p) ==
  /\ pc[p] = "is_initialized"
  /\ init_move(p, "done", IF is_initialized THEN "true" ELSE "false")
  /\ UNCHANGED <<cells, config>>

InitStep(p) ==
  \/ Start(p, [NoReq EXCEPT !.op = "init_application"], "init_root")
  \/ init_application_root(p)
  \/ \E created \in BOOLEAN : init_application_directories(p, created)
  \/ \E migrated \in BOOLEAN : init_database(p, migrated)
  \/ \E loaded \in BOOLEAN : init_proxy(p, loaded)
  \/ Start(p, [NoReq EXCEPT !.op = "is_initialized"], "is_initialized")
  \/ is_initialized_return(p)

InitNext == \E p \in Procs : InitStep(p)

\* the process starts: no global is set
Unset ==
  /\ Dormant
  /\ cells = {}
  /\ instances = <<>>
  /\ engines = <<>>
  /\ moduleInfo \in InitTables
  /\ serial = FALSE

InitSpec == Unset /\ [][InitNext]_vars

\* C39: is_initialized returns true only when init_application has done
\* every step: the directories, the database, the module manager, the proxy.
C39_InitializedMeansComplete ==
  \A p \in Procs :
    (pc[p] = "done" /\ req[p].op = "is_initialized" /\ res[p] = "true")
    => cells = {Cells[i] : i \in DOMAIN Cells}

====
